---------------------------- MODULE Spec2Model ----------------------------
(***************************************************************************)
(* Verification model of the TeraBox transfer modules:                     *)
(*   dl_terabox.py  batch pipeline (fetcher_worker, downloader_worker,     *)
(*                  uploader_worker, batch_terabox_download)               *)
(*   terabox.py     download_file (resumable download),                    *)
(*                  process_link_independently, process_single_file,       *)
(*                  upload_and_cleanup, broadcast_video,                   *)
(*                  fetch_fresh_direct_url, MongoDBManager, handle_message *)
(*   tbscraper.py   normalize_link, add_links_to_db, get_links_count,      *)
(*                  record_link, terabox_auto_forward, clear_terabox_db    *)
(* Each program part has its own specification over the shared variables;  *)
(* the variables of the other parts stay at their initial values.          *)
(***************************************************************************)
EXTENDS Integers, Sequences, FiniteSets, TLC

\* ------------------------------------------------------------------ bounds
\* Number of links of the submitted batch (links_count).
NumLinks == 3
\* MAX_PARALLEL of dl_terabox.py, scaled down from 25 so that a batch has more
\* links than downloader tasks.
MAX_PARALLEL == 2

VARIABLES
    \* --- batch pipeline (dl_terabox.py)
    seen_links,       \* links of the config's "seen_links" store
    fetcher_pc,       \* "loop" (not started) | "fetching" | "done"
    fetcher_i,        \* index into links of the link being fetched
    fetcher_k,        \* number of sentinels put
    download_queue,   \* asyncio.Queue, unbounded FIFO
    upload_queue,     \* asyncio.Queue, unbounded FIFO
    semaphore,        \* semaphore._value
    dl_pc,            \* per downloader: "get" | "downloading" | "writing" |
                      \* "done"
    dl_item,          \* per downloader: the item it holds
    up_pc,            \* "get" | "uploading" | "done"
    up_item,          \* the item being uploaded
    active_uploads,
    results,          \* the results list
    fetch_calls,      \* jobs for which fetch_terabox_info was called
    download_calls,   \* jobs for which download_file_optimized was called
    upload_calls,     \* jobs for which send_video/send_document was called
    names,            \* per job: the "name" of the file its link resolves to
    disk,             \* per path of output_dir: 0, or the job that opened the
                      \* file there for writing last
    batch_pc,         \* batch_terabox_download: "pipeline" | "reported" | "error"
    summary,          \* the counts of the final summary
    result_file,      \* batch_results.json: the records written to it
    \* --- download_file (terabox.py)
    df_src,           \* size S of the source file, bytes numbered 1..S
    df_server,        \* what the source does: honours Range, sends Content-Length
    df_L,             \* length of the .part file at the call, -1 when there is none
    df_part,          \* the file at temp_path = path + ".part"
    df_final,         \* the file at path
    df_pc,            \* "start" | "requested" | "streaming" | "returned" | "raised"
    df_attempt,       \* attempt of the retry loop
    df_range,         \* offset of headers['Range'], -1 when the header is not set
    df_resume_pos,
    df_total,
    df_body,          \* bytes of the response body not yet read
    df_error,         \* the exception that ended the last failed attempt
    df_requests,      \* number of session.get calls made
    df_received,      \* number of body bytes read from the source
    df_hasher,        \* the bytes given to hasher.update since hashlib.md5()
    \* --- link store (tbscraper.py)
    alllinks,         \* db[ALLLINKS_KEY]["links"]
    al_new,           \* argument new_links of the last add_links_to_db call
    al_result,        \* the dict the last add_links_to_db call returned
    al_last,          \* the last operation on the store: "none" | "add" | "clear"
    \* --- auto-forward (tbscraper.py)
    tb_seen_links,    \* cfg["seen_links"] of the stored terabox config
    af_pc,            \* per handler: "idle" | "sending" | "done"
    af_links,         \* per handler: links extracted from its message
    af_new_links,     \* per handler: new_links
    af_outcome,       \* per handler: "none" | "sent" | "error"
    rl_true,          \* links for which record_link returned True since the
                      \* last clear_terabox_db, in call order
    \* --- process_link_independently, process_single_file (terabox.py)
    pl_link,          \* the descriptors the API has for the link, in order
    pl_pc,            \* "idle" | "fetching" | "error_notify" | "nofiles_notify" |
                      \* "files" | "returned" | "raised"
    pl_files,         \* files = data.get('links', [])
    pl_idx,           \* position in files of the file being processed
    pl_runs,          \* calls of process_link_independently for the link
    pl_fetches,       \* metadata requests the current call has made
    pf_pc,            \* "none" | "nourl_notify" | "oversize_notify" |
                      \* "resolving" | "downloading" | "uploading" |
                      \* "fail_notify" | "returned" | "raised"
    pf_attempt,       \* attempt of the retry loop
    pf_url,           \* url: 0 is the descriptor's direct_url, n the URL the
                      \* n-th fetch_fresh_direct_url call of this file returned
    pf_resolves,      \* fetch_fresh_direct_url calls made for this file
    pf_downloads,     \* the urls download_file was called with, in order
    pf_uploads,       \* upload_and_cleanup calls made for this file
    pf_staged,        \* urls whose path or path + ".part" holds a file
    pf_recorded,      \* records this process_single_file call has written
    failed_links,     \* retry_count of the failed_links document of the
                      \* (user, link), 0 when there is none
    oversized_links,  \* per file name: number of oversized_links documents
    downloads,        \* per file name: number of downloads documents
    \* --- upload_and_cleanup, broadcast_video (terabox.py)
    uc_pc,            \* upload_and_cleanup: "none" | "replying" | "sleeping" |
                      \* "returned" | "raised"
    uc_video,         \* is_video
    uc_file,          \* whether there is a file at path
    uc_error,         \* whether the try block was left by an exception
    uc_recorded,      \* number of record_success calls made for the file
    bc_chats,         \* len(BROADCAST_CHATS)
    bc_pc,            \* broadcast task: "none" | "created" | "sending" | "done"
    bc_idx,           \* position in BROADCAST_CHATS of the chat being sent to
    bc_log,           \* per chat reached by the loop: "sent" | "failed" |
                      \* "nofile" (open raised)
    broadcast_count,
    \* --- status message of the batch (dl_terabox.py)
    status_text,      \* the counts in the text of the update_status_message
                      \* call that is running, NoStatus when none is
    status_error,     \* whether status_msg.edit raised in the iteration of
                      \* the uploader's loop that is running
    \* --- user settings (terabox.py)
    allow_duplicates, \* the user's "allow_duplicates" setting
    \* --- MongoDBManager (terabox.py)
    db_failed,        \* the failed_links collection: its documents in
                      \* insertion order
    db_downloads,     \* number of documents of the downloads collection
    db_failures,      \* per (user, link): record_failure calls since the
                      \* last record_success for it
    db_last,          \* the last call: its name, user and link
    \* --- fetch_fresh_direct_url (terabox.py)
    rs_response,      \* what the API does with the request
    rs_name,          \* the file_name argument
    rs_pc,            \* "none", "called", "returned" or "raised"
    rs_result,        \* the returned (direct_url, file_info)
    \* --- link extraction (dl_terabox.py, terabox.py)
    ex_text,          \* the text of the message: whether there is one, and
                      \* its whitespace-separated words in order
    ex_pc,            \* "idle" | "extracted" | "handled"
    ex_links          \* the list of links the call produced

batchVars == <<seen_links, fetcher_pc, fetcher_i, fetcher_k, download_queue,
               upload_queue, semaphore, dl_pc, dl_item, up_pc, up_item,
               active_uploads, results, fetch_calls, download_calls,
               upload_calls, names, disk, batch_pc, summary, result_file>>

dfVars == <<df_src, df_server, df_L, df_part, df_final, df_pc, df_attempt,
            df_range, df_resume_pos, df_total, df_body, df_error, df_requests,
            df_received, df_hasher>>

linkVars == <<alllinks, al_new, al_result, al_last>>

fwdVars == <<tb_seen_links, af_pc, af_links, af_new_links, af_outcome, rl_true>>

botVars == <<pl_link, pl_pc, pl_files, pl_idx, pl_runs, pl_fetches, pf_pc,
             pf_attempt, pf_url, pf_resolves, pf_downloads, pf_uploads,
             pf_staged, pf_recorded, failed_links, oversized_links, downloads>>

upVars == <<uc_pc, uc_video, uc_file, uc_error, uc_recorded, bc_chats, bc_pc,
            bc_idx, bc_log, broadcast_count>>

statusVars == <<status_text, status_error>>

settingVars == <<allow_duplicates>>

dbVars == <<db_failed, db_downloads, db_failures, db_last>>

rsVars == <<rs_response, rs_name, rs_pc, rs_result>>

exVars == <<ex_text, ex_pc, ex_links>>

\* The parts that consist of calls of one function.
callVars == <<statusVars, settingVars, dbVars, rsVars, exVars>>

vars == <<batchVars, dfVars, linkVars, fwdVars, botVars, upVars, callVars>>

\* What the actions of one part leave unchanged: the variables of the others.
nonBatchVars ==
    <<dfVars, linkVars, fwdVars, botVars, upVars, callVars>>

nonDfVars ==
    <<batchVars, linkVars, fwdVars, botVars, upVars, callVars>>

nonLinkVars ==
    <<batchVars, dfVars, fwdVars, botVars, upVars, callVars>>

nonFwdVars ==
    <<batchVars, dfVars, linkVars, botVars, upVars, callVars>>

nonBotVars ==
    <<batchVars, dfVars, linkVars, fwdVars, upVars, callVars>>

nonUpVars ==
    <<batchVars, dfVars, linkVars, fwdVars, botVars, callVars>>

nonExVars ==
    <<batchVars, dfVars, linkVars, fwdVars, botVars, upVars, statusVars,
      settingVars, dbVars, rsVars>>

nonStatusVars ==
    <<dfVars, linkVars, fwdVars, botVars, upVars, settingVars, dbVars,
      rsVars, exVars>>

nonSettingVars ==
    <<batchVars, dfVars, linkVars, fwdVars, botVars, upVars, statusVars,
      dbVars, rsVars, exVars>>

nonDbVars ==
    <<batchVars, dfVars, linkVars, fwdVars, botVars, upVars, statusVars,
      settingVars, rsVars, exVars>>

nonRsVars ==
    <<batchVars, dfVars, linkVars, fwdVars, botVars, upVars, statusVars,
      settingVars, dbVars, exVars>>

\* ------------------------------------------------- batch pipeline: helpers
\* The submitted links; a job is identified by the position of its link.
Jobs == 1..NumLinks

\* The link of a job, and the links already in the seen-links store when the
\* batch starts: the first submitted link is a known one, the others are new.
LinkOf(i) == i

SeenAtStart == {LinkOf(1)}

\* The downloader tasks created by batch_terabox_download.
Downloaders == 1..MAX_PARALLEL

\* The sentinel None, and the item a task holds when it holds none.
NoneItem == [job |-> 0, status |-> "None"]

\* Status strings; the code tells them apart by their first character.
StartsWithCross(s) == s \in {"Fetch failed", "Fetch error", "Download failed"}

StartsWithWarning(s) == s \in {"Download error", "Upload failed"}

\* item.get("status", "").startswith("X") in downloader_worker
IsFetchFailure(item) == StartsWithCross(item.status)

\* item.get("status", "").startswith(("X", "!")) in uploader_worker
OnlyCrossIsFailure(item) == StartsWithCross(item.status)

IsImmediateFailure(item) ==
    StartsWithCross(item.status) \/ StartsWithWarning(item.status)

\* What fetch_terabox_info can give for a link: file info, no info, exception.
FetchOutcomes == {"info", "none", "exception"}

\* The item fetcher_worker puts on the download queue.
FetchedItem(i, outcome) ==
    CASE outcome = "info" -> [job |-> i, status |-> ""]
      [] outcome = "none" -> [job |-> i, status |-> "Fetch failed"]
      [] OTHER -> [job |-> i, status |-> "Fetch error"]

\* The names of the resolved files: all different, or the files of the first
\* two links have the same name.
DistinctNames == [i \in Jobs |-> i]

NameChoices == {DistinctNames, [i \in Jobs |-> IF i = 2 THEN 1 ELSE i]}

\* file_path = output_dir / file_name
StagingPath(i) == names[i]

\* file_path.exists()
PathExists(p) == disk[p] # 0

\* os.remove(str(file_path))
RemoveSkipped(d, p) == d

RemoveStaged(d, p) == [d EXCEPT ![p] = 0]

\* How download_file_optimized ends. While the response is awaited: a status
\* other than 200, or session.get raises. Once the file is open: the body is
\* read to its end and is non-empty or empty, or reading it raises.
DownloadOutcomes(pc) ==
    IF pc = "downloading"
    THEN {"failed", "exception"}
    ELSE {"file", "empty", "exception"}

\* except Exception as e: result = {"url": link, "status": "Download error"}
ExceptionEscapes(i) == NoneItem

ExceptionResult(i) == [job |-> i, status |-> "Download error"]

\* The result downloader_worker puts on the upload queue.
DownloadResult(i, outcome) ==
    IF outcome = "exception"
    THEN ExceptionResult(i)
    ELSE IF outcome = "file" /\ PathExists(StagingPath(i))
         THEN [job |-> i, status |-> "Ready for upload"]
         ELSE [job |-> i, status |-> "Download failed"]

\* r["status"].startswith("V")
StartsWithUpload(s) == s \in {"Uploaded", "Upload failed"}

StartsWithCheck(s) == s = "Uploaded"

\* success = sum(1 for r in results if r["status"].startswith("V"))
SuccessCount(rs) ==
    Cardinality({k \in 1..Len(rs) : StartsWithCheck(rs[k].status)})

\* asyncio.Semaphore
SemLocked(v) == v = 0

SemAcquire(v) == v - 1

SemReleaseLeaks(v) == v

SemRelease(v) == v + 1

\* upload_queue.put(item) for an item whose fetch failed
ForwardDropped(q, item) == q

ForwardFailed(q, item) == Append(q, item)

\* results.append(item)
AppendTwice(rs, item) == Append(Append(rs, item), item)

AppendResult(rs, item) == Append(rs, item)

\* while len(results) < links_count
UploaderNextPc(rs) == IF Len(rs) < NumLinks THEN "get" ELSE "done"

\* Message handlers of terabox_auto_forward that run at the same time.
NumHandlers == 2

Handlers == 1..NumHandlers

\* Largest number of files the API returns for a link; a file is named by its
\* position.
MaxFiles == 2

FileNames == 1..MaxFiles

\* Calls of process_link_independently made for the same link and user.
MaxRuns == 2

\* ------------------------------------------------------------ files on disk
\* A path holds no file, or a file with its bytes.
NoFile == [exists |-> FALSE, data |-> <<>>]

FileOf(bytes) == [exists |-> TRUE, data |-> bytes]

\* os.path.getsize
GetSize(f) == Len(f.data)

\* --------------------------------------- the parts that a specification leaves
\* download_file is not running.
DfIdle ==
    /\ df_src = 0
    /\ df_server = [range |-> TRUE, length |-> TRUE]
    /\ df_L = -1
    /\ df_part = NoFile
    /\ df_final = NoFile
    /\ df_pc = "idle"
    /\ df_attempt = 0
    /\ df_range = -1
    /\ df_resume_pos = 0
    /\ df_total = 0
    /\ df_body = <<>>
    /\ df_error = "none"
    /\ df_requests = 0
    /\ df_received = 0
    /\ df_hasher = <<>>

NoResult == [added |-> 0, duplicates_skipped |-> 0, total |-> 0]

\* No operation is made on the link store.
LinksIdle ==
    /\ alllinks = <<>>
    /\ al_new = <<>>
    /\ al_result = NoResult
    /\ al_last = "none"

\* No message reaches terabox_auto_forward.
FwdIdle ==
    /\ tb_seen_links = <<>>
    /\ af_pc = [h \in Handlers |-> "idle"]
    /\ af_links = [h \in Handlers |-> <<>>]
    /\ af_new_links = [h \in Handlers |-> <<>>]
    /\ af_outcome = [h \in Handlers |-> "none"]
    /\ rl_true = <<>>

\* No link reaches process_link_independently.
BotIdle ==
    /\ pl_link = <<>>
    /\ pl_pc = "idle"
    /\ pl_files = <<>>
    /\ pl_idx = 0
    /\ pl_runs = 0
    /\ pl_fetches = 0
    /\ pf_pc = "none"
    /\ pf_attempt = 0
    /\ pf_url = 0
    /\ pf_resolves = 0
    /\ pf_downloads = <<>>
    /\ pf_uploads = 0
    /\ pf_staged = {}
    /\ pf_recorded = <<>>
    /\ failed_links = 0
    /\ oversized_links = [n \in FileNames |-> 0]
    /\ downloads = [n \in FileNames |-> 0]

\* upload_and_cleanup has not been called and no broadcast task exists.
UpIdle ==
    /\ uc_pc = "none"
    /\ uc_video = FALSE
    /\ uc_file = FALSE
    /\ uc_error = FALSE
    /\ uc_recorded = 0
    /\ bc_chats = 0
    /\ bc_pc = "none"
    /\ bc_idx = 0
    /\ bc_log = <<>>
    /\ broadcast_count = 0

\* No update_status_message call is running.
NoStatus ==
    [done |-> 0, success_count |-> 0, failed_count |-> 0,
     files_remaining |-> 0, queue_waiting |-> 0, download_active |-> 0,
     upload_active |-> 0, links_count |-> 0]

StatusIdle ==
    /\ status_text = NoStatus
    /\ status_error = FALSE

\* get_user_setting(user_id, "allow_duplicates", True) of a user who has not
\* set it.
SettingIdle == allow_duplicates = TRUE

\* The users and links of the database calls.
DbUsers == {"u1", "u2"}

DbLinks == {"l1", "l2"}

\* The collections are empty and no call was made.
DbIdle ==
    /\ db_failed = <<>>
    /\ db_downloads = 0
    /\ db_failures = [u \in DbUsers |-> [l \in DbLinks |-> 0]]
    /\ db_last = [call |-> "none", user_id |-> "", link |-> ""]

\* (None, None)
NotFound ==
    [found |-> FALSE, direct_url |-> "",
     file_info |-> [name |-> "", direct_url |-> ""]]

\* No link is being resolved again.
RsIdle ==
    /\ rs_response = [kind |-> "none"]
    /\ rs_name = ""
    /\ rs_pc = "none"
    /\ rs_result = NotFound

\* No text is being scanned for links.
ExIdle ==
    /\ ex_text = [given |-> FALSE, words |-> <<>>]
    /\ ex_pc = "idle"
    /\ ex_links = <<>>

CallsIdle == StatusIdle /\ SettingIdle /\ DbIdle /\ RsIdle /\ ExIdle

\* ------------------------------------------------------ batch pipeline: Init
PipelineStart ==
    /\ seen_links = SeenAtStart
    /\ fetcher_pc = "loop"
    /\ fetcher_i = 1
    /\ fetcher_k = 0
    /\ download_queue = <<>>
    /\ upload_queue = <<>>
    /\ semaphore = MAX_PARALLEL
    /\ dl_pc = [d \in Downloaders |-> "get"]
    /\ dl_item = [d \in Downloaders |-> NoneItem]
    /\ up_pc = "get"
    /\ up_item = NoneItem
    /\ active_uploads = 0
    /\ results = <<>>
    /\ fetch_calls = {}
    /\ download_calls = {}
    /\ upload_calls = {}
    /\ disk = [p \in Jobs |-> 0]
    /\ batch_pc = "pipeline"
    /\ summary = [total |-> 0, uploaded |-> 0, failed |-> 0]
    /\ result_file = <<>>

\* A batch whose files all have different names.
BatchStart == PipelineStart /\ names = DistinctNames

BatchInit ==
    /\ BatchStart
    /\ DfIdle /\ LinksIdle /\ FwdIdle /\ BotIdle /\ UpIdle /\ CallsIdle

\* --------------------------------------------------- fetcher_worker (stage 1)
\* A fetcher that requests the info of every link at once.
FetchAllStarted(calls, i) == calls \cup Jobs

\* info = await fetch_terabox_info(session, link): the request of one link.
FetchStarted(calls, i) == calls \cup {i}

FetchCall ==
    /\ fetcher_pc = "loop"
    /\ fetcher_i <= NumLinks
    /\ fetcher_pc' = "fetching"
    /\ fetch_calls' = FetchStarted(fetch_calls, fetcher_i)
    /\ UNCHANGED <<names, disk, batch_pc, summary, result_file, seen_links,
                   fetcher_i, fetcher_k, download_queue, upload_queue,
                   semaphore, dl_pc, dl_item, up_pc, up_item, active_uploads,
                   results, download_calls, upload_calls>>
    /\ UNCHANGED nonBatchVars

\* A fetcher that puts a single sentinel.
WithOneSentinel(q) == Append(q, NoneItem)

\* The sentinels fetcher_worker puts after its loop over links.
WithSentinels(q) == q \o [k \in 1..MAX_PARALLEL |-> NoneItem]

\* fetch_terabox_info returns or raises and the item of the link is put. A put
\* on an unbounded queue never suspends, so the task runs on without
\* interleaving to the fetch of the next link, or through the sentinel loop to
\* its end.
FetchReturn ==
    /\ fetcher_pc = "fetching"
    /\ \E outcome \in FetchOutcomes :
         LET q == Append(download_queue, FetchedItem(fetcher_i, outcome))
         IN  download_queue' = IF fetcher_i < NumLinks THEN q ELSE WithSentinels(q)
    /\ fetcher_i' = fetcher_i + 1
    /\ fetch_calls' = IF fetcher_i < NumLinks
                      THEN FetchStarted(fetch_calls, fetcher_i + 1)
                      ELSE fetch_calls
    /\ fetcher_k' = IF fetcher_i < NumLinks THEN 0 ELSE MAX_PARALLEL
    /\ fetcher_pc' = IF fetcher_i < NumLinks THEN "fetching" ELSE "done"
    /\ UNCHANGED <<names, disk, batch_pc, summary, result_file, seen_links,
                   upload_queue, semaphore, dl_pc, dl_item, up_pc, up_item,
                   active_uploads, results, download_calls, upload_calls>>
    /\ UNCHANGED nonBatchVars

\* ------------------------------------------------ downloader_worker (stage 2)
\* A downloader that keeps the sentinel it got.
NotPutBack(q) == q

\* await download_queue.put(None)
PutBack(q) == Append(q, NoneItem)

DlGetSentinel(d) ==
    /\ dl_pc[d] = "get"
    /\ download_queue # <<>>
    /\ Head(download_queue) = NoneItem
    /\ download_queue' = PutBack(Tail(download_queue))
    /\ dl_pc' = [dl_pc EXCEPT ![d] = "done"]
    /\ UNCHANGED <<names, disk, batch_pc, summary, result_file, seen_links,
                   fetcher_pc, fetcher_i, fetcher_k, upload_queue, semaphore,
                   dl_item, up_pc, up_item, active_uploads, results,
                   fetch_calls, download_calls, upload_calls>>
    /\ UNCHANGED nonBatchVars

DlPassFailure(d) ==
    /\ dl_pc[d] = "get"
    /\ download_queue # <<>>
    /\ Head(download_queue) # NoneItem
    /\ IsFetchFailure(Head(download_queue))
    /\ upload_queue' = ForwardFailed(upload_queue, Head(download_queue))
    /\ download_queue' = Tail(download_queue)
    /\ UNCHANGED <<names, disk, batch_pc, summary, result_file, seen_links,
                   fetcher_pc, fetcher_i, fetcher_k, semaphore, dl_pc, dl_item,
                   up_pc, up_item, active_uploads, results, fetch_calls,
                   download_calls, upload_calls>>
    /\ UNCHANGED nonBatchVars

\* A job item is taken. The semaphore has a permit for every downloader task,
\* so acquire finds one free and does not suspend: the task runs on to the
\* request of download_file_optimized.
DlGetJob(d) ==
    /\ dl_pc[d] = "get"
    /\ download_queue # <<>>
    /\ Head(download_queue) # NoneItem
    /\ ~IsFetchFailure(Head(download_queue))
    /\ ~SemLocked(semaphore)
    /\ semaphore' = SemAcquire(semaphore)
    /\ dl_item' = [dl_item EXCEPT ![d] = Head(download_queue)]
    /\ download_queue' = Tail(download_queue)
    /\ dl_pc' = [dl_pc EXCEPT ![d] = "downloading"]
    /\ download_calls' = download_calls \cup {Head(download_queue).job}
    /\ UNCHANGED <<names, disk, batch_pc, summary, result_file, seen_links,
                   fetcher_pc, fetcher_i, fetcher_k, upload_queue, up_pc,
                   up_item, active_uploads, results, fetch_calls,
                   upload_calls>>
    /\ UNCHANGED nonBatchVars

\* response.status == 200: aiofiles.open(file_path, 'wb') creates the file or
\* truncates the one that is there.
DlOpenFile(d) ==
    /\ dl_pc[d] = "downloading"
    /\ disk' = [disk EXCEPT ![StagingPath(dl_item[d].job)] = dl_item[d].job]
    /\ dl_pc' = [dl_pc EXCEPT ![d] = "writing"]
    /\ UNCHANGED <<names, batch_pc, summary, result_file, seen_links,
                   fetcher_pc, fetcher_i, fetcher_k, download_queue,
                   upload_queue, semaphore, dl_item, up_pc, up_item,
                   active_uploads, results, fetch_calls, download_calls,
                   upload_calls>>
    /\ UNCHANGED nonBatchVars

DlFinish(d) ==
    /\ dl_pc[d] \in {"downloading", "writing"}
    /\ \E outcome \in DownloadOutcomes(dl_pc[d]) :
         upload_queue' = Append(upload_queue, DownloadResult(dl_item[d].job, outcome))
    /\ semaphore' = SemRelease(semaphore)
    /\ dl_item' = [dl_item EXCEPT ![d] = NoneItem]
    /\ dl_pc' = [dl_pc EXCEPT ![d] = "get"]
    /\ UNCHANGED <<names, disk, batch_pc, summary, result_file, seen_links,
                   fetcher_pc, fetcher_i, fetcher_k, download_queue, up_pc,
                   up_item, active_uploads, results, fetch_calls,
                   download_calls, upload_calls>>
    /\ UNCHANGED nonBatchVars

\* -------------------------------------------------- uploader_worker (stage 3)
\* wait_for(upload_queue.get(), timeout=1.0) times out: status update, continue.
UpTimeout ==
    /\ up_pc = "get"
    /\ upload_queue = <<>>
    /\ UNCHANGED vars

UpRecordFailure ==
    /\ up_pc = "get"
    /\ upload_queue # <<>>
    /\ IsImmediateFailure(Head(upload_queue))
    /\ results' = AppendResult(results, Head(upload_queue))
    /\ upload_queue' = Tail(upload_queue)
    /\ up_pc' = UploaderNextPc(results')
    /\ UNCHANGED <<names, disk, batch_pc, summary, result_file, seen_links,
                   fetcher_pc, fetcher_i, fetcher_k, download_queue, semaphore,
                   dl_pc, dl_item, up_item, active_uploads, fetch_calls,
                   download_calls, upload_calls>>
    /\ UNCHANGED nonBatchVars

UpStartUpload ==
    /\ up_pc = "get"
    /\ upload_queue # <<>>
    /\ ~IsImmediateFailure(Head(upload_queue))
    /\ up_item' = Head(upload_queue)
    /\ upload_queue' = Tail(upload_queue)
    /\ active_uploads' = active_uploads + 1
    /\ upload_calls' = upload_calls \cup {Head(upload_queue).job}
    /\ up_pc' = "uploading"
    /\ UNCHANGED <<names, disk, batch_pc, summary, result_file, seen_links,
                   fetcher_pc, fetcher_i, fetcher_k, download_queue, semaphore,
                   dl_pc, dl_item, results, fetch_calls, download_calls>>
    /\ UNCHANGED nonBatchVars

\* send_video / send_document returns, or raises (always when there is no file
\* at the path); finally: the file at the path is removed, the item appended.
UploadReturns ==
    /\ up_pc = "uploading"
    /\ \E st \in (IF PathExists(StagingPath(up_item.job))
                  THEN {"Uploaded", "Upload failed"}
                  ELSE {"Upload failed"}) :
         results' = AppendResult(results, [up_item EXCEPT !.status = st])
    /\ disk' = RemoveStaged(disk, StagingPath(up_item.job))
    /\ up_item' = NoneItem
    /\ active_uploads' = active_uploads - 1
    /\ up_pc' = UploaderNextPc(results')
    /\ UNCHANGED <<names, batch_pc, summary, result_file, seen_links,
                   fetcher_pc, fetcher_i, fetcher_k, download_queue,
                   upload_queue, semaphore, dl_pc, dl_item, fetch_calls,
                   download_calls, upload_calls>>

UpFinish ==
    /\ UploadReturns
    /\ UNCHANGED nonBatchVars

\* gather has returned: success and failed are counted, the summary is shown
\* and batch_results.json is written; an exception of status_msg.edit ends the
\* command before the file is written.
BatchReport ==
    /\ batch_pc = "pipeline"
    /\ fetcher_pc = "done"
    /\ \A d \in Downloaders : dl_pc[d] = "done"
    /\ up_pc = "done"
    /\ summary' = [total |-> NumLinks,
                   uploaded |-> SuccessCount(results),
                   failed |-> NumLinks - SuccessCount(results)]
    /\ \/ batch_pc' = "reported" /\ result_file' = results
       \/ batch_pc' = "error" /\ result_file' = <<>>
    /\ UNCHANGED <<names, disk, seen_links, fetcher_pc, fetcher_i, fetcher_k,
                   download_queue, upload_queue, semaphore, dl_pc, dl_item,
                   up_pc, up_item, active_uploads, results, fetch_calls,
                   download_calls, upload_calls>>
    /\ UNCHANGED nonBatchVars

\* gather(fetcher_task, *downloader_tasks, uploader_task)
BatchNext ==
    \/ FetchCall
    \/ FetchReturn
    \/ \E d \in Downloaders : DlGetSentinel(d)
    \/ \E d \in Downloaders : DlPassFailure(d)
    \/ \E d \in Downloaders : DlGetJob(d)
    \/ \E d \in Downloaders : DlOpenFile(d)
    \/ \E d \in Downloaders : DlFinish(d)
    \/ UpTimeout
    \/ UpRecordFailure
    \/ UpStartUpload
    \/ UpFinish
    \/ BatchReport

Spec == BatchInit /\ [][BatchNext]_vars

\* Every awaited call returns or raises, and the event loop runs a ready task.
\* A step of the batch changes the batch's variables only.
FairSpec == Spec /\ WF_batchVars(BatchNext)

\* A batch in which two files can have the same name.
StagingInit ==
    /\ PipelineStart
    /\ names \in NameChoices
    /\ DfIdle /\ LinksIdle /\ FwdIdle /\ BotIdle /\ UpIdle /\ CallsIdle

StagingSpec == StagingInit /\ [][BatchNext]_vars

\* =========================================================== download_file
\* Largest source size S of the model, in chunks of iter_chunked.
MaxSize == 3

\* max_retries: int = 3
max_retries == 3

\* The bytes of the source file.
Source == [k \in 1..df_src |-> k]

\* The body the source sends for a request: the bytes from the Range offset
\* onward (status 206) when the header is set and the source honours it, the
\* whole file (status 200) otherwise.
ResponseBody(rangeOffset) ==
    IF rangeOffset >= 0 /\ df_server.range
    THEN SubSeq(Source, rangeOffset + 1, df_src)
    ELSE Source

\* int(r.headers.get('Content-Length', 0))
ContentLength(body) == IF df_server.length THEN Len(body) ELSE 0

\* A Range offset at or past the end of the file is answered 416.
RangeSatisfiable(rangeOffset) ==
    ~(rangeOffset >= 0 /\ df_server.range /\ rangeOffset >= df_src)

\* if total > 0 and actual_size < total: raise ValueError
SizeCheckSkipped(total, actual_size) == FALSE

SizeCheckFails(total, actual_size) == total > 0 /\ actual_size < total

\* if os.path.exists(temp_path): os.remove(temp_path)
CleanupSkipped(f) == f

CleanupPart(f) == NoFile

\* An attempt ended with exception e: the next attempt, or after the last one
\* the cleanup and the final RuntimeError.
FailAttempt(e, part) ==
    /\ df_error' = e
    /\ IF df_attempt < max_retries
       THEN /\ df_attempt' = df_attempt + 1
            /\ df_pc' = "start"
            /\ df_part' = part
       ELSE /\ df_attempt' = df_attempt
            /\ df_pc' = "raised"
            /\ df_part' = CleanupPart(part)

\* download_file is called for a source of size S, with no .part file or with
\* one that holds the first L bytes of the source.
DfInit ==
    /\ df_src \in 1..MaxSize
    /\ df_server \in [range : BOOLEAN, length : BOOLEAN]
    /\ df_L \in -1..df_src
    /\ df_part = IF df_L < 0 THEN NoFile ELSE FileOf(SubSeq(Source, 1, df_L))
    /\ df_final = NoFile
    /\ df_pc = "start"
    /\ df_attempt = 1
    /\ df_range = -1
    /\ df_resume_pos = 0
    /\ df_total = 0
    /\ df_body = <<>>
    /\ df_error = "none"
    /\ df_requests = 0
    /\ df_received = 0
    /\ df_hasher = <<>>
    /\ BatchStart
    /\ LinksIdle
    /\ FwdIdle /\ BotIdle /\ UpIdle /\ CallsIdle

\* resume_pos, the Range header, session.get(url, headers=headers)
DfRequest ==
    /\ df_pc = "start"
    /\ df_resume_pos' = IF df_part.exists THEN GetSize(df_part) ELSE 0
    /\ df_range' = IF df_part.exists THEN GetSize(df_part) ELSE df_range
    /\ df_requests' = df_requests + 1
    /\ df_pc' = "requested"
    /\ UNCHANGED <<df_src, df_server, df_L, df_part, df_final, df_attempt,
                   df_total, df_body, df_error, df_received>>
    /\ UNCHANGED df_hasher
    /\ UNCHANGED nonDfVars

\* session.get raises: timeout or connection error
DfConnectError ==
    /\ df_pc = "requested"
    /\ FailAttempt("TimeoutError", df_part)
    /\ UNCHANGED <<df_src, df_server, df_L, df_final, df_range, df_resume_pos,
                   df_total, df_body, df_requests, df_received>>
    /\ UNCHANGED df_hasher
    /\ UNCHANGED nonDfVars

\* r.status not in (200, 206): RuntimeError("Bad HTTP status")
DfBadStatus ==
    /\ df_pc = "requested"
    /\ FailAttempt("RuntimeError", df_part)
    /\ UNCHANGED <<df_src, df_server, df_L, df_final, df_range, df_resume_pos,
                   df_total, df_body, df_requests, df_received>>
    /\ UNCHANGED df_hasher
    /\ UNCHANGED nonDfVars

\* r.status in (200, 206): total, hasher = hashlib.md5(),
\* aiofiles.open(temp_path, 'ab')
DfOkStatus ==
    /\ df_pc = "requested"
    /\ RangeSatisfiable(df_range)
    /\ df_body' = ResponseBody(df_range)
    /\ df_total' = ContentLength(ResponseBody(df_range)) + df_resume_pos
    /\ df_part' = FileOf(df_part.data)
    /\ df_pc' = "streaming"
    /\ UNCHANGED <<df_src, df_server, df_L, df_final, df_attempt, df_range,
                   df_resume_pos, df_error, df_requests, df_received>>
    /\ df_hasher' = <<>>
    /\ UNCHANGED nonDfVars

\* one chunk of iter_chunked: f.write(chunk), hasher.update(chunk)
DfChunk ==
    /\ df_pc = "streaming"
    /\ df_body # <<>>
    /\ df_part' = FileOf(Append(df_part.data, Head(df_body)))
    /\ df_body' = Tail(df_body)
    /\ df_received' = df_received + 1
    /\ UNCHANGED <<df_src, df_server, df_L, df_final, df_pc, df_attempt,
                   df_range, df_resume_pos, df_total, df_error, df_requests>>
    /\ df_hasher' = Append(df_hasher, Head(df_body))
    /\ UNCHANGED nonDfVars

\* the body breaks off with ClientPayloadError or a timeout
DfPayloadError ==
    /\ df_pc = "streaming"
    /\ FailAttempt("ClientPayloadError", df_part)
    /\ df_body' = <<>>
    /\ UNCHANGED <<df_src, df_server, df_L, df_final, df_range, df_resume_pos,
                   df_total, df_requests, df_received>>
    /\ UNCHANGED df_hasher
    /\ UNCHANGED nonDfVars

\* the body ends (all of it read, or the source closed early): the size check
\* raises ValueError
DfIncomplete ==
    /\ df_pc = "streaming"
    /\ SizeCheckFails(df_total, GetSize(df_part))
    /\ FailAttempt("ValueError", df_part)
    /\ df_body' = <<>>
    /\ UNCHANGED <<df_src, df_server, df_L, df_final, df_range, df_resume_pos,
                   df_total, df_requests, df_received>>
    /\ UNCHANGED df_hasher
    /\ UNCHANGED nonDfVars

\* the body ends and the size check passes: os.replace(temp_path, path), return
DfComplete ==
    /\ df_pc = "streaming"
    /\ ~SizeCheckFails(df_total, GetSize(df_part))
    /\ df_final' = df_part
    /\ df_part' = NoFile
    /\ df_pc' = "returned"
    /\ UNCHANGED <<df_src, df_server, df_L, df_attempt, df_range, df_body,
                   df_resume_pos, df_total, df_error, df_requests, df_received>>
    /\ UNCHANGED df_hasher
    /\ UNCHANGED nonDfVars

DfNext ==
    \/ DfRequest
    \/ DfConnectError
    \/ DfBadStatus
    \/ DfOkStatus
    \/ DfChunk
    \/ DfPayloadError
    \/ DfIncomplete
    \/ DfComplete

DownloadSpec == DfInit /\ [][DfNext]_vars

\* ========================================================= link store
\* Largest number of links in the store at the start, and in one new_links.
MaxStored == 2

MaxNew == 2

\* Links are strings, modelled as sequences of characters: they differ in
\* letter case, in trailing slashes, or in their text.
LinkUniverse ==
    {<<"a">>, <<"A">>, <<"a", "/">>, <<"A", "/", "/">>, <<"b">>, <<"/", "b">>}

\* Sequences over S of length at most n.
SeqUpTo(S, n) == UNION {[1..k -> S] : k \in 0..n}

\* str.lower on one character
LowerChar(c) ==
    CASE c = "A" -> "a"
      [] c = "B" -> "b"
      [] OTHER -> c

\* str.rstrip("/")
RStrip(str) ==
    LET keep == {k \in 0..Len(str) : \A j \in (k + 1)..Len(str) : str[j] = "/"}
        n == CHOOSE k \in keep : \A m \in keep : k <= m
    IN  SubSeq(str, 1, n)

\* link.rstrip("/").lower()
normalize_link(link) ==
    LET stripped == RStrip(link)
    IN  [k \in 1..Len(stripped) |-> LowerChar(stripped[k])]

\* {normalize_link(l) for l in existing_links}
NormalizedSet(links) == {normalize_link(links[k]) : k \in 1..Len(links)}

\* if normalized not in existing_normalized
ComparesRawLink(link, existing_links, existing_normalized) ==
    \E k \in 1..Len(existing_links) : existing_links[k] = link

AlreadyStored(link, existing_links, existing_normalized) ==
    normalize_link(link) \in existing_normalized

\* existing_normalized.add(normalized)
NormalizedNotAdded(existing_normalized, link) == existing_normalized

AddNormalized(existing_normalized, link) ==
    existing_normalized \cup {normalize_link(link)}

\* The loop of add_links_to_db over new_links[i..], from the loop state
\* (existing_links, existing_normalized, added_count, duplicates_skipped).
RECURSIVE AddLoop(_, _, _, _, _, _)
AddLoop(new_links, i, existing_links, existing_normalized, added, skipped) ==
    IF i > Len(new_links)
    THEN [links |-> existing_links, added |-> added, skipped |-> skipped]
    ELSE IF ~AlreadyStored(new_links[i], existing_links, existing_normalized)
         THEN AddLoop(new_links, i + 1, Append(existing_links, new_links[i]),
                      AddNormalized(existing_normalized, new_links[i]),
                      added + 1, skipped)
         ELSE AddLoop(new_links, i + 1, existing_links, existing_normalized,
                      added, skipped + 1)

\* len(get_all_links())
get_links_count == Len(alllinks)

LinksInit ==
    /\ alllinks \in SeqUpTo(LinkUniverse, MaxStored)
    /\ al_new = <<>>
    /\ al_result = NoResult
    /\ al_last = "none"
    /\ BatchStart
    /\ DfIdle
    /\ FwdIdle /\ BotIdle /\ UpIdle /\ CallsIdle

\* One call per store content: the initial stores are all the contents up to
\* MaxStored links, and a cleared store can be filled again.
add_links_to_db ==
    /\ al_last # "add"
    /\ \E new_links \in SeqUpTo(LinkUniverse, MaxNew) :
         LET out == AddLoop(new_links, 1, alllinks, NormalizedSet(alllinks), 0, 0)
         IN  /\ alllinks' = out.links
             /\ al_new' = new_links
             /\ al_result' = [added |-> out.added,
                              duplicates_skipped |-> out.skipped,
                              total |-> Len(out.links)]
    /\ al_last' = "add"
    /\ UNCHANGED nonLinkVars

clear_all_links_db ==
    /\ al_last # "clear"
    /\ alllinks' = <<>>
    /\ al_new' = <<>>
    /\ al_result' = NoResult
    /\ al_last' = "clear"
    /\ UNCHANGED nonLinkVars

LinksNext ==
    \/ add_links_to_db
    \/ clear_all_links_db

LinksSpec == LinksInit /\ [][LinksNext]_vars

\* ======================================================= terabox_auto_forward
\* The link lists extract_terabox_links finds in the incoming messages: one
\* link, two spellings of one link, two different links, one link twice.
AfMessages ==
    { << <<"a">> >>,
      << <<"A">>, <<"a", "/">> >>,
      << <<"b">>, <<"a">> >>,
      << <<"b">>, <<"b">> >> }

\* seen_normalized = [normalize_link(l) for l in cfg["seen_links"]]
SeenNormalized(seen) == {normalize_link(seen[k]) : k \in 1..Len(seen)}

\* cfg["seen_links"].append(link); save_terabox_config(cfg)
SaveLost(seen, link) == seen

SaveSeen(seen, link) == Append(seen, link)

\* normalized not in seen_normalized
NotInSeenRaw(link, seen) == \A k \in 1..Len(seen) : seen[k] # link

NotInSeen(link, seen) == normalize_link(link) \notin SeenNormalized(seen)

\* record_link(link) on the stored list: the list it leaves and what it returns.
record_link(link, seen) ==
    IF NotInSeen(link, seen)
    THEN [seen |-> SaveSeen(seen, link), ret |-> TRUE]
    ELSE [seen |-> seen, ret |-> FALSE]

\* new_links = [link for link in links if record_link(link)]
RECURSIVE RecordLoop(_, _, _, _)
RecordLoop(links, i, seen, new_links) ==
    IF i > Len(links)
    THEN [seen |-> seen, new_links |-> new_links]
    ELSE LET r == record_link(links[i], seen)
         IN  RecordLoop(links, i + 1, r.seen,
                        IF r.ret THEN Append(new_links, links[i]) ELSE new_links)

\* A handler runs from its start to its first await without interleaving: the
\* config checks, extract_terabox_links and every record_link call.
AfRecord(h) ==
    /\ af_pc[h] = "idle"
    /\ \E links \in AfMessages :
         LET out == RecordLoop(links, 1, tb_seen_links, <<>>)
         IN  /\ tb_seen_links' = out.seen
             /\ af_links' = [af_links EXCEPT ![h] = links]
             /\ af_new_links' = [af_new_links EXCEPT ![h] = out.new_links]
             /\ rl_true' = rl_true \o out.new_links
             /\ af_pc' = [af_pc EXCEPT ![h] =
                            IF out.new_links = <<>> THEN "done" ELSE "sending"]
    /\ af_outcome' = [af_outcome EXCEPT ![h] = "none"]
    /\ UNCHANGED nonFwdVars

\* message.copy / client.send_message returns or raises; the exception is
\* printed and the handler ends.
AfSendReturn(h) ==
    /\ af_pc[h] = "sending"
    /\ \E outcome \in {"sent", "error"} :
         af_outcome' = [af_outcome EXCEPT ![h] = outcome]
    /\ af_pc' = [af_pc EXCEPT ![h] = "done"]
    /\ UNCHANGED <<tb_seen_links, af_links, af_new_links, rl_true>>
    /\ UNCHANGED nonFwdVars

\* The handler has returned; the next message is dispatched.
AfDispatch(h) ==
    /\ af_pc[h] = "done"
    /\ af_pc' = [af_pc EXCEPT ![h] = "idle"]
    /\ af_links' = [af_links EXCEPT ![h] = <<>>]
    /\ af_new_links' = [af_new_links EXCEPT ![h] = <<>>]
    /\ af_outcome' = [af_outcome EXCEPT ![h] = "none"]
    /\ UNCHANGED <<tb_seen_links, rl_true>>
    /\ UNCHANGED nonFwdVars

\* clear_tb_db_cmd: clear_terabox_db()
clear_terabox_db ==
    /\ tb_seen_links' = <<>>
    /\ rl_true' = <<>>
    /\ UNCHANGED <<af_pc, af_links, af_new_links, af_outcome>>
    /\ UNCHANGED nonFwdVars

FwdInit ==
    /\ FwdIdle
    /\ BatchStart /\ DfIdle /\ LinksIdle /\ BotIdle /\ UpIdle /\ CallsIdle

FwdNext ==
    \/ \E h \in Handlers : AfRecord(h)
    \/ \E h \in Handlers : AfSendReturn(h)
    \/ \E h \in Handlers : AfDispatch(h)
    \/ clear_terabox_db

ForwardSpec == FwdInit /\ [][FwdNext]_vars

\* ================== process_link_independently, process_single_file, database
\* MAX_DOWNLOAD_RETRIES = 3
MAX_DOWNLOAD_RETRIES == 3

\* MAX_SIZE of terabox.py, scaled down from 50 MB to the unit of the declared
\* sizes of the model.
MAX_SIZE == 2

\* file_info: whether it has a direct_url, and its declared size, at the cap
\* or just above it.
Descriptors == [url : BOOLEAN, size : {MAX_SIZE, MAX_SIZE + 1}]

\* What the API can hold for a link: no file, or up to MaxFiles files.
LinkContents == SeqUpTo(Descriptors, MaxFiles)

\* size_bytes > MAX_SIZE
IsOversized(size_bytes) == size_bytes > MAX_SIZE

\* url = fresh_url
KeepsUrl(url, fresh_url) == url

NextUrl(url, fresh_url) == fresh_url

\* MongoDBManager.record_failure: $inc retry_count of the document of the
\* (user, link), or insert it with retry_count 1.
record_failure(retry_count) == retry_count + 1

\* MongoDBManager.record_oversized: insert a document unless one exists for
\* the (user, link, file name).
record_oversized(docs, file_name) ==
    IF docs[file_name] > 0 THEN docs ELSE [docs EXCEPT ![file_name] = 1]

\* The except branch of the retry loop: remove path and path + ".part"; on the
\* last attempt record the failure and notify the user, otherwise continue.
AttemptFailed(staged) ==
    /\ pf_staged' = staged \ {pf_url}
    /\ IF pf_attempt = MAX_DOWNLOAD_RETRIES
       THEN /\ failed_links' = record_failure(failed_links)
            /\ pf_recorded' = Append(pf_recorded, "failure")
            /\ pf_pc' = "fail_notify"
            /\ pf_attempt' = pf_attempt
       ELSE /\ pf_attempt' = pf_attempt + 1
            /\ pf_pc' = "resolving"
            /\ UNCHANGED <<failed_links, pf_recorded>>

\* process_link_independently(update, link): the metadata request is sent.
PliCall ==
    /\ pl_pc \in {"idle", "returned", "raised"}
    /\ pl_runs < MaxRuns
    /\ pl_runs' = pl_runs + 1
    /\ pl_pc' = "fetching"
    /\ pl_fetches' = 1
    /\ pl_files' = <<>>
    /\ pl_idx' = 0
    /\ pf_pc' = "none"
    /\ UNCHANGED <<pl_link, pf_attempt, pf_url, pf_resolves, pf_downloads,
                   pf_uploads, pf_staged, pf_recorded, failed_links,
                   oversized_links, downloads>>
    /\ UNCHANGED nonBotVars

\* The request raises or has a status other than 200, or returns the files.
PliFetchReturn ==
    /\ pl_pc = "fetching"
    /\ \/ /\ pl_pc' = "error_notify"
          /\ UNCHANGED <<pl_files, pl_idx>>
       \/ /\ pl_files' = pl_link
          /\ pl_pc' = IF pl_link = <<>> THEN "nofiles_notify" ELSE "files"
          /\ pl_idx' = IF pl_link = <<>> THEN 0 ELSE 1
    /\ UNCHANGED <<pl_link, pl_runs, pl_fetches, pf_pc, pf_attempt, pf_url,
                   pf_resolves, pf_downloads, pf_uploads, pf_staged,
                   pf_recorded, failed_links, oversized_links, downloads>>
    /\ UNCHANGED nonBotVars

\* except / if not files: reply_text returns and record_failure is called, or
\* reply_text raises and the task ends with the exception.
PliFailureNotify ==
    /\ pl_pc \in {"error_notify", "nofiles_notify"}
    /\ \/ /\ failed_links' = record_failure(failed_links)
          /\ pl_pc' = "returned"
       \/ /\ pl_pc' = "raised"
          /\ UNCHANGED failed_links
    /\ UNCHANGED <<pl_link, pl_files, pl_idx, pl_runs, pl_fetches, pf_pc,
                   pf_attempt, pf_url, pf_resolves, pf_downloads, pf_uploads,
                   pf_staged, pf_recorded, oversized_links, downloads>>
    /\ UNCHANGED nonBotVars

\* process_single_file(update, file_info, link) up to its first await.
PsfStart ==
    /\ pl_pc = "files"
    /\ pf_pc = "none"
    /\ pl_idx <= Len(pl_files)
    /\ LET file_info == pl_files[pl_idx]
           starts == file_info.url /\ ~IsOversized(file_info.size)
       IN  /\ pf_pc' = IF ~file_info.url THEN "nourl_notify"
                       ELSE IF IsOversized(file_info.size) THEN "oversize_notify"
                       ELSE "downloading"
           /\ pf_attempt' = IF starts THEN 1 ELSE 0
           /\ pf_downloads' = IF starts THEN <<0>> ELSE <<>>
    /\ pf_url' = 0
    /\ pf_resolves' = 0
    /\ pf_uploads' = 0
    /\ pf_recorded' = <<>>
    /\ UNCHANGED <<pl_link, pl_pc, pl_files, pl_idx, pl_runs, pl_fetches,
                   pf_staged, failed_links, oversized_links, downloads>>
    /\ UNCHANGED nonBotVars

\* if not url: reply_text, then record_failure; return.
PsfNoUrlNotify ==
    /\ pf_pc = "nourl_notify"
    /\ \/ /\ failed_links' = record_failure(failed_links)
          /\ pf_recorded' = Append(pf_recorded, "failure")
          /\ pf_pc' = "returned"
       \/ /\ pf_pc' = "raised"
          /\ UNCHANGED <<failed_links, pf_recorded>>
    /\ UNCHANGED <<pl_link, pl_pc, pl_files, pl_idx, pl_runs, pl_fetches,
                   pf_attempt, pf_url, pf_resolves, pf_downloads, pf_uploads,
                   pf_staged, oversized_links, downloads>>
    /\ UNCHANGED nonBotVars

\* if size_bytes > MAX_SIZE: reply_text, then record_oversized; return.
PsfOversizeNotify ==
    /\ pf_pc = "oversize_notify"
    /\ \/ /\ oversized_links' = record_oversized(oversized_links, pl_idx)
          /\ pf_recorded' = Append(pf_recorded, "oversized")
          /\ pf_pc' = "returned"
       \/ /\ pf_pc' = "raised"
          /\ UNCHANGED <<oversized_links, pf_recorded>>
    /\ UNCHANGED <<pl_link, pl_pc, pl_files, pl_idx, pl_runs, pl_fetches,
                   pf_attempt, pf_url, pf_resolves, pf_downloads, pf_uploads,
                   pf_staged, failed_links, downloads>>
    /\ UNCHANGED nonBotVars

\* attempt > 1: fetch_fresh_direct_url returns a URL and download_file is
\* called with it, or it returns None: continue, or raise on the last attempt.
PsfResolveReturn ==
    /\ pf_pc = "resolving"
    /\ pf_resolves' = pf_resolves + 1
    /\ \/ /\ pf_url' = NextUrl(pf_url, pf_resolves + 1)
          /\ pf_downloads' = Append(pf_downloads, pf_url')
          /\ pf_pc' = "downloading"
          /\ UNCHANGED <<pf_attempt, pf_staged, pf_recorded, failed_links>>
       \/ /\ pf_attempt < MAX_DOWNLOAD_RETRIES
          /\ pf_attempt' = pf_attempt + 1
          /\ UNCHANGED <<pf_pc, pf_url, pf_downloads, pf_staged, pf_recorded,
                         failed_links>>
       \/ /\ pf_attempt = MAX_DOWNLOAD_RETRIES
          /\ AttemptFailed(pf_staged)
          /\ UNCHANGED <<pf_url, pf_downloads>>
    /\ UNCHANGED <<pl_link, pl_pc, pl_files, pl_idx, pl_runs, pl_fetches,
                   pf_uploads, oversized_links, downloads>>
    /\ UNCHANGED nonBotVars

\* download_file returns with the file at path and upload_and_cleanup is
\* called, or it raises, with or without a file left at path + ".part".
PsfDownloadReturn ==
    /\ pf_pc = "downloading"
    /\ \/ /\ pf_staged' = pf_staged \cup {pf_url}
          /\ pf_uploads' = pf_uploads + 1
          /\ pf_pc' = "uploading"
          /\ UNCHANGED <<pf_attempt, pf_recorded, failed_links>>
       \/ /\ \E left \in SUBSET {pf_url} : AttemptFailed(pf_staged \cup left)
          /\ UNCHANGED pf_uploads
    /\ UNCHANGED <<pl_link, pl_pc, pl_files, pl_idx, pl_runs, pl_fetches,
                   pf_url, pf_resolves, pf_downloads, oversized_links,
                   downloads>>
    /\ UNCHANGED nonBotVars

\* upload_and_cleanup: the reply is sent and record_success is called, or the
\* reply raises; finally the file at path is removed. The exception is caught
\* by the except branch of the retry loop.
PsfUploadReturn ==
    /\ pf_pc = "uploading"
    /\ \/ /\ downloads' = [downloads EXCEPT ![pl_idx] = @ + 1]
          /\ failed_links' = 0
          /\ pf_recorded' = Append(pf_recorded, "success")
          /\ pf_staged' = pf_staged \ {pf_url}
          /\ pf_pc' = "returned"
          /\ UNCHANGED pf_attempt
       \/ /\ AttemptFailed(pf_staged \ {pf_url})
          /\ UNCHANGED downloads
    /\ UNCHANGED <<pl_link, pl_pc, pl_files, pl_idx, pl_runs, pl_fetches,
                   pf_url, pf_resolves, pf_downloads, pf_uploads,
                   oversized_links>>
    /\ UNCHANGED nonBotVars

\* The reply_text of the last attempt returns: the loop ends; or it raises
\* inside the except branch and the exception leaves process_single_file.
PsfFailNotify ==
    /\ pf_pc = "fail_notify"
    /\ pf_pc' \in {"returned", "raised"}
    /\ UNCHANGED <<pl_link, pl_pc, pl_files, pl_idx, pl_runs, pl_fetches,
                   pf_attempt, pf_url, pf_resolves, pf_downloads, pf_uploads,
                   pf_staged, pf_recorded, failed_links, oversized_links,
                   downloads>>
    /\ UNCHANGED nonBotVars

\* A loop that goes on to the next file once the call was started.
CallStarted(pc) == pc \notin {"none", "raised"}

\* await process_single_file(update, file_info, link): the call has returned.
CallReturned(pc) == pc = "returned"

\* for file_info in files: the call returned, the next file is taken.
PliNextFile ==
    /\ pl_pc = "files"
    /\ CallReturned(pf_pc)
    /\ pl_idx' = pl_idx + 1
    /\ pf_pc' = "none"
    /\ UNCHANGED <<pl_link, pl_pc, pl_files, pl_runs, pl_fetches, pf_attempt,
                   pf_url, pf_resolves, pf_downloads, pf_uploads, pf_staged,
                   pf_recorded, failed_links, oversized_links, downloads>>
    /\ UNCHANGED nonBotVars

\* The call raised: the exception leaves the loop and the task.
PliFileRaised ==
    /\ pl_pc = "files"
    /\ pf_pc = "raised"
    /\ pl_pc' = "raised"
    /\ UNCHANGED <<pl_link, pl_files, pl_idx, pl_runs, pl_fetches, pf_pc,
                   pf_attempt, pf_url, pf_resolves, pf_downloads, pf_uploads,
                   pf_staged, pf_recorded, failed_links, oversized_links,
                   downloads>>
    /\ UNCHANGED nonBotVars

\* The loop over files has ended.
PliDone ==
    /\ pl_pc = "files"
    /\ pf_pc = "none"
    /\ pl_idx > Len(pl_files)
    /\ pl_pc' = "returned"
    /\ UNCHANGED <<pl_link, pl_files, pl_idx, pl_runs, pl_fetches, pf_pc,
                   pf_attempt, pf_url, pf_resolves, pf_downloads, pf_uploads,
                   pf_staged, pf_recorded, failed_links, oversized_links,
                   downloads>>
    /\ UNCHANGED nonBotVars

\* button_callback, "toggle_duplicates": the setting is read and its negation
\* stored.
ToggleDuplicates ==
    /\ allow_duplicates' = ~allow_duplicates
    /\ UNCHANGED nonSettingVars

\* A user sends a link whose content is any of LinkContents; the database is
\* empty.
BotInit ==
    /\ pl_link \in LinkContents
    /\ pl_pc = "idle"
    /\ pl_files = <<>>
    /\ pl_idx = 0
    /\ pl_runs = 0
    /\ pl_fetches = 0
    /\ pf_pc = "none"
    /\ pf_attempt = 0
    /\ pf_url = 0
    /\ pf_resolves = 0
    /\ pf_downloads = <<>>
    /\ pf_uploads = 0
    /\ pf_staged = {}
    /\ pf_recorded = <<>>
    /\ failed_links = 0
    /\ oversized_links = [n \in FileNames |-> 0]
    /\ downloads = [n \in FileNames |-> 0]
    /\ BatchStart
    /\ DfIdle
    /\ LinksIdle
    /\ FwdIdle
    /\ UpIdle
    /\ CallsIdle

BotNext ==
    \/ PliCall
    \/ PliFetchReturn
    \/ PliFailureNotify
    \/ PsfStart
    \/ PsfNoUrlNotify
    \/ PsfOversizeNotify
    \/ PsfResolveReturn
    \/ PsfDownloadReturn
    \/ PsfUploadReturn
    \/ PsfFailNotify
    \/ PliNextFile
    \/ PliFileRaised
    \/ PliDone
    \/ ToggleDuplicates

BotSpec == BotInit /\ [][BotNext]_vars

\* ===================================== upload_and_cleanup, broadcast_video
\* Largest number of entries of BROADCAST_CHATS.
MaxChats == 4

\* except Exception in the loop of broadcast_video: the failure is logged and
\* the loop goes on with the next chat.
StopsAfterError(idx) == bc_chats + 1

AfterSendError(idx) == idx + 1

\* for chat_id in BROADCAST_CHATS, from the chat at idx to the next await or to
\* the end of the loop: open(file_path, 'rb') succeeds and send_video is
\* called, or it raises because there is no file, the failure is logged, and
\* the same happens for every chat that is left.
BcLoop(idx, log, count) ==
    IF idx > bc_chats
    THEN /\ bc_pc' = "done"
         /\ bc_idx' = idx
         /\ bc_log' = log
         /\ broadcast_count' = count
    ELSE IF uc_file
    THEN /\ bc_pc' = "sending"
         /\ bc_idx' = idx
         /\ bc_log' = log
         /\ broadcast_count' = count
    ELSE /\ bc_pc' = "done"
         /\ bc_idx' = bc_chats + 1
         /\ bc_log' = log \o [k \in 1..(bc_chats + 1 - idx) |-> "nofile"]
         /\ broadcast_count' = count

\* reply_video / reply_document returns: record_success, and for a video
\* create_task(broadcast_video(...)); or it raises. finally: asyncio.sleep(2).
UcReplyReturn ==
    /\ uc_pc = "replying"
    /\ uc_pc' = "sleeping"
    /\ \/ /\ uc_recorded' = uc_recorded + 1
          /\ bc_pc' = IF uc_video THEN "created" ELSE bc_pc
          /\ uc_error' = FALSE
       \/ /\ uc_error' = TRUE
          /\ UNCHANGED <<uc_recorded, bc_pc>>
    /\ UNCHANGED <<uc_video, uc_file, bc_chats, bc_idx, bc_log,
                   broadcast_count>>
    /\ UNCHANGED nonUpVars

\* The sleep is over: os.remove(path); the call returns, or the exception of
\* the try block goes on to the caller. A broadcast task was put on the ready
\* queue by create_task before the timer of the sleep was set, so it has run
\* to its first await by the time the timer fires.
UcCleanup ==
    /\ uc_pc = "sleeping"
    /\ bc_pc # "created"
    /\ uc_file' = FALSE
    /\ uc_pc' = IF uc_error THEN "raised" ELSE "returned"
    /\ UNCHANGED <<uc_video, uc_error, uc_recorded, bc_chats, bc_pc, bc_idx,
                   bc_log, broadcast_count>>
    /\ UNCHANGED nonUpVars

\* The broadcast task runs for the first time: return if BROADCAST_CHATS is
\* empty, otherwise the loop starts.
BcStart ==
    /\ bc_pc = "created"
    /\ BcLoop(1, <<>>, 0)
    /\ UNCHANGED <<uc_pc, uc_video, uc_file, uc_error, uc_recorded, bc_chats>>
    /\ UNCHANGED nonUpVars

\* send_video returns: broadcast_count += 1; or it raises: except Exception.
\* The loop goes on.
BcSendReturn ==
    /\ bc_pc = "sending"
    /\ \/ BcLoop(bc_idx + 1, Append(bc_log, "sent"), broadcast_count + 1)
       \/ BcLoop(AfterSendError(bc_idx), Append(bc_log, "failed"),
                 broadcast_count)
    /\ UNCHANGED <<uc_pc, uc_video, uc_file, uc_error, uc_recorded, bc_chats>>
    /\ UNCHANGED nonUpVars

\* upload_and_cleanup was called for a downloaded file, a video or not, has
\* opened it and waits for the reply; BROADCAST_CHATS has any number of
\* entries up to MaxChats.
UpStart ==
    /\ uc_pc = "replying"
    /\ uc_video \in BOOLEAN
    /\ uc_file = TRUE
    /\ uc_error = FALSE
    /\ uc_recorded = 0
    /\ bc_chats \in 0..MaxChats
    /\ bc_pc = "none"
    /\ bc_idx = 0
    /\ bc_log = <<>>
    /\ broadcast_count = 0

UpInit ==
    /\ UpStart
    /\ BatchStart /\ DfIdle /\ LinksIdle /\ FwdIdle /\ BotIdle /\ CallsIdle

UpNext ==
    \/ UcReplyReturn
    \/ UcCleanup
    \/ BcStart
    \/ BcSendReturn

UploadSpec == UpInit /\ [][UpNext]_vars

\* ------------------------------------------ either program's upload step
\* No batch command is running: none of its worker tasks is alive.
NoBatch ==
    /\ seen_links = SeenAtStart
    /\ fetcher_pc = "done"
    /\ fetcher_i = 1
    /\ fetcher_k = 0
    /\ download_queue = <<>>
    /\ upload_queue = <<>>
    /\ semaphore = MAX_PARALLEL
    /\ dl_pc = [d \in Downloaders |-> "done"]
    /\ dl_item = [d \in Downloaders |-> NoneItem]
    /\ up_pc = "done"
    /\ up_item = NoneItem
    /\ active_uploads = 0
    /\ results = <<>>
    /\ fetch_calls = {}
    /\ download_calls = {}
    /\ upload_calls = {}
    /\ names = DistinctNames
    /\ disk = [p \in Jobs |-> 0]
    /\ batch_pc = "none"
    /\ summary = [total |-> 0, uploaded |-> 0, failed |-> 0]
    /\ result_file = <<>>

\* One of the two programs runs: the batch pipeline of dl_terabox.py, or an
\* upload of the bot of terabox.py.
CleanupInit ==
    /\ \/ BatchStart /\ UpIdle
       \/ NoBatch /\ UpStart
    /\ DfIdle /\ LinksIdle /\ FwdIdle /\ BotIdle /\ CallsIdle

CleanupNext ==
    \/ BatchNext
    \/ UpNext

CleanupSpec == CleanupInit /\ [][CleanupNext]_vars

\* ========================================================== link extraction
\* Largest number of words of a text.
MaxWords == 2

\* A word of a text: the link that TERABOX_REGEX / LINK_REGEX matches in it
\* ("" when it matches none), and whether characters precede the match.
Words == [link : {"", "a", "b"}, prefixed : BOOLEAN]

\* The texts of a message, and None for a message without text.
Texts ==
    {[given |-> TRUE, words |-> ws] : ws \in SeqUpTo(Words, MaxWords)}
        \cup {[given |-> FALSE, words |-> <<>>]}

\* not text
IsFalsy(text) == ~text.given \/ text.words = <<>>

\* regex.findall(text): the matches, left to right. A match has no
\* whitespace, so every word holds at most one.
FindAll(text) ==
    LET hits == SelectSeq(text.words, LAMBDA w : w.link # "")
    IN  [k \in 1..Len(hits) |-> hits[k].link]

\* list(dict.fromkeys(s)): the first occurrence of every element, in order.
RECURSIVE DictFromKeys(_)
DictFromKeys(s) ==
    IF s = <<>> THEN <<>>
    ELSE LET front == DictFromKeys(SubSeq(s, 1, Len(s) - 1))
             last == s[Len(s)]
         IN  IF \E k \in 1..Len(front) : front[k] = last
             THEN front
             ELSE Append(front, last)

\* extract_terabox_links(text)
extract_terabox_links(text) ==
    IF IsFalsy(text) THEN <<>> ELSE FindAll(text)

\* The links of handle_message: text absent or empty, or no match: none.
handle_message_links(text) ==
    IF IsFalsy(text) THEN <<>> ELSE DictFromKeys(FindAll(text))

ExtractCall ==
    /\ ex_pc = "idle"
    /\ ex_links' = extract_terabox_links(ex_text)
    /\ ex_pc' = "extracted"
    /\ UNCHANGED ex_text
    /\ UNCHANGED nonExVars

HandleMessage ==
    /\ ex_pc = "idle"
    /\ ex_links' = handle_message_links(ex_text)
    /\ ex_pc' = "handled"
    /\ UNCHANGED ex_text
    /\ UNCHANGED nonExVars

\* A message arrives with any text, or with none.
ExInit ==
    /\ ex_text \in Texts
    /\ ex_pc = "idle"
    /\ ex_links = <<>>
    /\ BatchStart /\ DfIdle /\ LinksIdle /\ FwdIdle /\ BotIdle /\ UpIdle
    /\ StatusIdle /\ SettingIdle /\ DbIdle /\ RsIdle

ExNext ==
    \/ ExtractCall
    \/ HandleMessage

ExtractSpec == ExInit /\ [][ExNext]_vars

\* ==================================== the batch with its status message
\* Number of records after which the uploader always updates the status.
UPDATE_EVERY == 5

Max(a, b) == IF a > b THEN a ELSE b

\* except Exception: pass, around status_msg.edit(text): where the uploader
\* is after the edit raised, which is where it was.
EditErrorRaised(pc) == "raised"

EditErrorIgnored(pc) == pc

\* A count of the remaining files that takes the held item for done.
RemainingButOne(links_count, done) == links_count - done - 1

\* files_remaining = links_count - done
FilesRemaining(links_count, done) == links_count - done

\* update_status_message: the counts that it puts into the text.
update_status_message(links_count, rs, download_active, upload_active) ==
    LET done == Len(rs)
        success_count ==
            Cardinality({k \in 1..Len(rs) : StartsWithCheck(rs[k].status)})
        failed_count ==
            Cardinality({k \in 1..Len(rs) :
                            \/ StartsWithCross(rs[k].status)
                            \/ StartsWithWarning(rs[k].status)})
        files_remaining == FilesRemaining(links_count, done)
    IN  [done |-> done,
         success_count |-> success_count,
         failed_count |-> failed_count,
         files_remaining |-> files_remaining,
         queue_waiting |->
             Max(0, files_remaining - download_active - upload_active),
         download_active |-> download_active,
         upload_active |-> upload_active,
         links_count |-> links_count]

\* The status update check of uploader_worker: always for no item, for a
\* multiple of 5 results and for the last but one result; otherwise when 10
\* seconds have passed, which they may or may not have.
MustUpdate(item) ==
    \/ item = NoneItem
    \/ Len(results) % UPDATE_EVERY = 0
    \/ Len(results) = NumLinks - 1

\* The item processing of uploader_worker up to its next await: a failure
\* item is appended to results and the iteration is over, for a file the send
\* is called.
ProcessItem(item, raised) ==
    IF IsImmediateFailure(item)
    THEN /\ results' = AppendResult(results, item)
         /\ up_pc' = UploaderNextPc(results')
         /\ up_item' = NoneItem
         /\ status_error' = FALSE
         /\ UNCHANGED <<active_uploads, upload_calls>>
    ELSE /\ up_item' = item
         /\ active_uploads' = active_uploads + 1
         /\ upload_calls' = upload_calls \cup {item.job}
         /\ up_pc' = "uploading"
         /\ status_error' = raised
         /\ UNCHANGED results

\* download_active = MAX_PARALLEL - semaphore._value
FreePermits(v) == v

DownloadActive(v) == MAX_PARALLEL - v

\* The call of update_status_message in the loop of uploader_worker.
CallUpdateStatus ==
    /\ status_text' = update_status_message(NumLinks, results,
                          DownloadActive(semaphore), active_uploads)
    /\ status_error' = FALSE

\* wait_for(upload_queue.get(), timeout=1.0) times out: item is None and
\* update_status_message is called.
StTimeout ==
    /\ up_pc = "get"
    /\ upload_queue = <<>>
    /\ CallUpdateStatus
    /\ up_pc' = "status"
    /\ up_item' = NoneItem
    /\ UNCHANGED <<names, disk, batch_pc, summary, result_file, seen_links,
                   fetcher_pc, fetcher_i, fetcher_k, download_queue,
                   upload_queue, semaphore, dl_pc, dl_item, active_uploads,
                   results, fetch_calls, download_calls, upload_calls>>
    /\ UNCHANGED nonStatusVars

\* An item is taken and update_status_message is called.
StGetItem ==
    /\ up_pc = "get"
    /\ upload_queue # <<>>
    /\ CallUpdateStatus
    /\ up_pc' = "status"
    /\ up_item' = Head(upload_queue)
    /\ upload_queue' = Tail(upload_queue)
    /\ UNCHANGED <<names, disk, batch_pc, summary, result_file, seen_links,
                   fetcher_pc, fetcher_i, fetcher_k, download_queue,
                   semaphore, dl_pc, dl_item, active_uploads, results,
                   fetch_calls, download_calls, upload_calls>>
    /\ UNCHANGED nonStatusVars

\* An item is taken when no update is due: it is processed at once.
StGetItemNoUpdate ==
    /\ up_pc = "get"
    /\ upload_queue # <<>>
    /\ ~MustUpdate(Head(upload_queue))
    /\ ProcessItem(Head(upload_queue), FALSE)
    /\ upload_queue' = Tail(upload_queue)
    /\ UNCHANGED <<names, disk, batch_pc, summary, result_file, seen_links,
                   fetcher_pc, fetcher_i, fetcher_k, download_queue,
                   semaphore, dl_pc, dl_item, fetch_calls, download_calls>>
    /\ UNCHANGED status_text
    /\ UNCHANGED nonStatusVars

\* status_msg.edit(text) returns or raises; update_status_message returns
\* either way. Without an item the loop goes on, with one it is processed.
StEditReturn ==
    /\ up_pc = "status"
    /\ \E raised \in BOOLEAN :
         IF raised /\ EditErrorIgnored("status") # "status"
         THEN /\ up_pc' = EditErrorIgnored("status")
              /\ status_error' = TRUE
              /\ UNCHANGED <<up_item, results, active_uploads, upload_calls>>
         ELSE IF up_item = NoneItem
         THEN /\ up_pc' = "get"
              /\ status_error' = FALSE
              /\ UNCHANGED <<up_item, results, active_uploads, upload_calls>>
         ELSE ProcessItem(up_item, raised)
    /\ status_text' = NoStatus
    /\ UNCHANGED <<names, disk, batch_pc, summary, result_file, seen_links,
                   fetcher_pc, fetcher_i, fetcher_k, download_queue,
                   upload_queue, semaphore, dl_pc, dl_item, fetch_calls,
                   download_calls>>
    /\ UNCHANGED nonStatusVars

\* The upload of the item has ended, and with it the loop iteration.
StUploadReturn ==
    /\ UploadReturns
    /\ status_error' = FALSE
    /\ UNCHANGED status_text
    /\ UNCHANGED nonStatusVars

\* gather has returned: the final update_status_message call.
StFinalStatus ==
    /\ batch_pc = "pipeline"
    /\ fetcher_pc = "done"
    /\ \A d \in Downloaders : dl_pc[d] = "done"
    /\ up_pc = "done"
    /\ status_text' = update_status_message(NumLinks, results,
                          DownloadActive(semaphore), 0)
    /\ batch_pc' = "final_status"
    /\ status_error' = FALSE
    /\ UNCHANGED <<names, disk, summary, result_file, seen_links, fetcher_pc,
                   fetcher_i, fetcher_k, download_queue, upload_queue,
                   semaphore, dl_pc, dl_item, up_pc, up_item, active_uploads,
                   results, fetch_calls, download_calls, upload_calls>>
    /\ UNCHANGED nonStatusVars

\* Its status_msg.edit returns or raises; then the summary is shown and
\* batch_results.json written, unless the edit of the summary raises.
StBatchReport ==
    /\ batch_pc = "final_status"
    /\ status_error' = FALSE
    /\ summary' = [total |-> NumLinks,
                   uploaded |-> SuccessCount(results),
                   failed |-> NumLinks - SuccessCount(results)]
    /\ \/ batch_pc' = "reported" /\ result_file' = results
       \/ batch_pc' = "error" /\ result_file' = <<>>
    /\ status_text' = NoStatus
    /\ UNCHANGED <<names, disk, seen_links, fetcher_pc, fetcher_i, fetcher_k,
                   download_queue, upload_queue, semaphore, dl_pc, dl_item,
                   up_pc, up_item, active_uploads, results, fetch_calls,
                   download_calls, upload_calls>>
    /\ UNCHANGED nonStatusVars

StatusInit ==
    /\ BatchStart
    /\ StatusIdle
    /\ DfIdle /\ LinksIdle /\ FwdIdle /\ BotIdle /\ UpIdle
    /\ SettingIdle /\ DbIdle /\ RsIdle /\ ExIdle

StatusNext ==
    \/ FetchCall
    \/ FetchReturn
    \/ \E d \in Downloaders : DlGetSentinel(d)
    \/ \E d \in Downloaders : DlPassFailure(d)
    \/ \E d \in Downloaders : DlGetJob(d)
    \/ \E d \in Downloaders : DlOpenFile(d)
    \/ \E d \in Downloaders : DlFinish(d)
    \/ StTimeout
    \/ StGetItem
    \/ StGetItemNoUpdate
    \/ StEditReturn
    \/ StUploadReturn
    \/ StFinalStatus
    \/ StBatchReport

StatusSpec == StatusInit /\ [][StatusNext]_vars

\* ============================================================ MongoDBManager
\* Largest number of record_failure calls for a (user, link) between two
\* record_success calls for it, and largest number of record_success calls.
MaxFailures == 2

MaxSuccesses == 2

\* The documents of a collection that match the (user, link) of a query.
Matching(coll, user_id, link) ==
    {k \in 1..Len(coll) : coll[k].user_id = user_id /\ coll[k].link = link}

Min(S) == CHOOSE k \in S : \A j \in S : k <= j

\* A lookup that never finds the document.
FindsNothing(coll, user_id, link) == 0

\* find_one: the position of the first matching document, 0 for None.
find_one(coll, user_id, link) ==
    IF Matching(coll, user_id, link) = {}
    THEN 0
    ELSE Min(Matching(coll, user_id, link))

\* record_failure: $inc retry_count of the existing document, or insert one
\* with retry_count 1.
FailedAfterFailure(coll, user_id, link, existing) ==
    IF existing # 0
    THEN [coll EXCEPT ![existing].retry_count = @ + 1]
    ELSE Append(coll,
                [user_id |-> user_id, link |-> link, retry_count |-> 1])

\* delete_one: the collection without its first matching document.
delete_one(coll, user_id, link) ==
    LET k == find_one(coll, user_id, link)
    IN  IF k = 0 THEN coll
        ELSE SubSeq(coll, 1, k - 1) \o SubSeq(coll, k + 1, Len(coll))

\* db_manager.record_failure(user_id, link, error)
DbRecordFailure(user_id, link) ==
    /\ db_failures[user_id][link] < MaxFailures
    /\ db_failed' = FailedAfterFailure(db_failed, user_id, link,
                        find_one(db_failed, user_id, link))
    /\ db_failures' = [db_failures EXCEPT ![user_id][link] = @ + 1]
    /\ db_last' = [call |-> "record_failure", user_id |-> user_id,
                   link |-> link]
    /\ UNCHANGED db_downloads
    /\ UNCHANGED nonDbVars

\* db_manager.record_success(user_id, link, ...): insert into downloads,
\* delete_one from failed_links.
DbRecordSuccess(user_id, link) ==
    /\ db_downloads < MaxSuccesses
    /\ db_downloads' = db_downloads + 1
    /\ db_failed' = delete_one(db_failed, user_id, link)
    /\ db_failures' = [db_failures EXCEPT ![user_id][link] = 0]
    /\ db_last' = [call |-> "record_success", user_id |-> user_id,
                   link |-> link]
    /\ UNCHANGED nonDbVars

DbInit ==
    /\ DbIdle
    /\ BatchStart /\ DfIdle /\ LinksIdle /\ FwdIdle /\ BotIdle /\ UpIdle
    /\ StatusIdle /\ SettingIdle /\ RsIdle /\ ExIdle

DbNext ==
    \/ \E user_id \in DbUsers, link \in DbLinks :
         DbRecordFailure(user_id, link)
    \/ \E user_id \in DbUsers, link \in DbLinks :
         DbRecordSuccess(user_id, link)

DbSpec == DbInit /\ [][DbNext]_vars

\* ======================================================= fetch_fresh_direct_url
\* Largest number of files the API lists for a link.
MaxListed == 2

\* The entries of the "links" list: a name and a direct_url, "" for a
\* direct_url that is absent, None or empty.
FileInfos == [name : {"a", "b"}, direct_url : {"", "u1", "u2"}]

FileLists == UNION {[1..n -> FileInfos] : n \in 0..MaxListed}

\* What session.get and r.json() can do: raise (connection error, timeout),
\* answer with a status and a body that is JSON with a "links" list, or
\* answer with a body r.json() cannot decode.
Responses ==
    {[kind |-> "unreachable"]}
      \cup [kind : {"json"}, status : {200, 404}, files : FileLists]
      \cup [kind : {"garbage"}, status : {200, 404}]

\* if direct_url: without the test.
AnyUrl(file_info) == TRUE

\* if direct_url:
HasUrl(file_info) == file_info.direct_url # ""

\* for file_info in files: the first entry with the name and a direct_url.
RECURSIVE FirstMatch(_, _)
FirstMatch(files, file_name) ==
    IF files = <<>>
    THEN NotFound
    ELSE IF Head(files).name = file_name /\ HasUrl(Head(files))
         THEN [found |-> TRUE, direct_url |-> Head(files).direct_url,
               file_info |-> Head(files)]
         ELSE FirstMatch(Tail(files), file_name)

\* The body of the try block: what it returns, or that it raises.
TryBody(response, file_name) ==
    IF response.kind = "unreachable"
    THEN [raises |-> TRUE, value |-> NotFound]
    ELSE IF response.status # 200
    THEN [raises |-> FALSE, value |-> NotFound]
    ELSE IF response.kind = "garbage"
    THEN [raises |-> TRUE, value |-> NotFound]
    ELSE [raises |-> FALSE, value |-> FirstMatch(response.files, file_name)]

\* except Exception: return None, None
fetch_fresh_direct_url(response, file_name) ==
    LET outcome == TryBody(response, file_name)
    IN  IF outcome.raises
        THEN [raises |-> FALSE, value |-> NotFound]
        ELSE outcome

\* await fetch_fresh_direct_url(original_link, name, session) is over.
RsReturn ==
    /\ rs_pc = "called"
    /\ LET outcome == fetch_fresh_direct_url(rs_response, rs_name)
       IN  /\ rs_pc' = IF outcome.raises THEN "raised" ELSE "returned"
           /\ rs_result' = outcome.value
    /\ UNCHANGED <<rs_response, rs_name>>
    /\ UNCHANGED nonRsVars

RsInit ==
    /\ rs_response \in Responses
    /\ rs_name \in {"a", "b"}
    /\ rs_pc = "called"
    /\ rs_result = NotFound
    /\ BatchStart /\ DfIdle /\ LinksIdle /\ FwdIdle /\ BotIdle /\ UpIdle
    /\ StatusIdle /\ SettingIdle /\ DbIdle /\ ExIdle

RsNext == RsReturn

ResolveSpec == RsInit /\ [][RsNext]_vars

\* ------------------------------------------------------------ claims C1..C4
AllTasksDone ==
    /\ fetcher_pc = "done"
    /\ \A d \in Downloaders : dl_pc[d] = "done"
    /\ up_pc = "done"

RecordsOf(i) == {k \in 1..Len(results) : results[k].job = i}

OneRecordPerLink ==
    /\ Len(results) = NumLinks
    /\ \A i \in Jobs : Cardinality(RecordsOf(i)) = 1

\* C1: whatever the per-link fetch, download and upload outcomes, the fetcher,
\* every downloader and the uploader eventually all finish, and whenever they
\* have all finished results holds exactly one record for every submitted link.
C1_Completeness == <>AllTasksDone /\ [](AllTasksDone => OneRecordPerLink)

\* A finished batch with an uploaded job, a failed download and a failed fetch.
C1_Witness ==
    /\ AllTasksDone
    /\ \E k \in 1..Len(results) : results[k].status = "Uploaded"
    /\ \E k \in 1..Len(results) : StartsWithCross(results[k].status)
    /\ \E k \in 1..Len(results) : StartsWithWarning(results[k].status)

ResultsWithinBatch ==
    /\ Len(results) <= NumLinks
    /\ \A i \in Jobs : Cardinality(RecordsOf(i)) <= 1

ResultsAppendOnly ==
    /\ Len(results') >= Len(results)
    /\ SubSeq(results', 1, Len(results)) = results

\* C2: at every point of a batch results holds at most links_count records and
\* at most one per submitted link, and every step leaves the records already
\* in results in place and unchanged (results only grows at its end).
C2_ResultsBounded == []ResultsWithinBatch /\ [][ResultsAppendOnly]_vars

\* Two records are in results while a third job is being uploaded.
C2_Witness == Len(results) >= 2 /\ up_pc = "uploading"

DownloadingTasks == {d \in Downloaders : dl_pc[d] \in {"downloading", "writing"}}

\* C3: the number of downloader tasks inside the semaphore-guarded download
\* section never exceeds MAX_PARALLEL, and it always equals
\* MAX_PARALLEL - semaphore._value, the count of permits taken.
C3_DownloadingBounded ==
    /\ Cardinality(DownloadingTasks) <= MAX_PARALLEL
    /\ semaphore >= 0
    /\ Cardinality(DownloadingTasks) = MAX_PARALLEL - semaphore

\* Every downloader is downloading while another job waits in the queue.
C3_Witness ==
    /\ Cardinality(DownloadingTasks) = MAX_PARALLEL
    /\ \E k \in 1..Len(download_queue) :
         download_queue[k] # NoneItem /\ ~IsFetchFailure(download_queue[k])

\* C4: a submitted link that is already in the seen-links store gets no
\* metadata request and no download request, and any record of it is a
\* duplicate outcome.
C4_KnownLinkSkipped ==
    \A i \in Jobs :
        LinkOf(i) \in seen_links =>
            /\ i \notin fetch_calls
            /\ i \notin download_calls
            /\ \A k \in RecordsOf(i) : results[k].status = "Duplicate"

\* ------------------------------------------------------------ claims C5..C8
DfRunning == df_pc \in {"start", "requested", "streaming"}

\* C5: started with a .part file of length L < S for a source that declares
\* its size S, download_file requests in every attempt the bytes from the current
\* length of the .part file onward, never shortens the .part file, reads at
\* most S - L bytes in total, and on success leaves a final file of exactly S
\* bytes and no .part file.
C5_ResumeReadsRemainder ==
    (df_L >= 0 /\ df_L < df_src /\ df_server.length) =>
        /\ df_pc = "requested" => df_range = GetSize(df_part)
        /\ DfRunning => GetSize(df_part) >= df_L
        /\ df_received <= df_src - df_L
        /\ df_pc = "returned" =>
             GetSize(df_final) = df_src /\ ~df_part.exists

\* C6: when download_file succeeds in an attempt that resumed from a .part
\* file shorter than the source and read the whole response body, the final file equals the source,
\* whether the ranged request was answered 206 with the remaining bytes or 200
\* with the full body.
C6_ResumedFileEqualsSource ==
    (/\ df_pc = "returned"
     /\ df_resume_pos > 0
     /\ df_resume_pos < df_src
     /\ df_body = <<>>) =>
        df_final.data = Source

\* C7: a file is at the final path only after download_file has returned, and
\* then, when the source declared the length, the file holds at least the
\* declared total; an attempt that ends with fewer bytes on disk than the
\* declared total fails and leaves the final path empty.
C7_RenameAfterSizeCheck ==
    /\ df_final.exists <=> df_pc = "returned"
    /\ (df_final.exists /\ df_server.length) => GetSize(df_final) >= df_total

\* An attempt was ended by the size check: the declared total was not on disk.
C7_Witness ==
    /\ df_error = "ValueError"
    /\ df_server.length
    /\ df_part.exists
    /\ GetSize(df_part) < df_total
    /\ ~df_final.exists

\* C8: download_file makes at most max_retries requests; it fails with the
\* final error only after max_retries requests, every earlier failure being
\* followed by a further attempt, and then neither the .part file nor a file
\* at the final path exists.
C8_ExhaustedLeavesNothing ==
    /\ df_requests <= max_retries
    /\ df_pc = "start" => df_requests = df_attempt - 1
    /\ df_pc \in {"requested", "streaming"} => df_requests = df_attempt
    /\ df_pc = "raised" =>
         /\ df_requests = max_retries
         /\ ~df_part.exists
         /\ ~df_final.exists

\* All attempts failed although bytes had been written to the .part file.
C8_Witness ==
    /\ df_pc = "raised"
    /\ df_received > 0
    /\ df_L < 0

\* ----------------------------------------------------------- claims C9..C10
\* The step is a call of add_links_to_db.
IsAddCall == al_last # "add" /\ al_last' = "add"

\* Every link of the call's new_links has its normalized form in the store.
AllInputsStored ==
    \A k \in 1..Len(al_new') :
        \E j \in 1..Len(alllinks) :
            normalize_link(alllinks[j]) = normalize_link(al_new'[k])

\* C9: a call of add_links_to_db whose links all have their normalized form in
\* the store counts every one of them as a skipped duplicate, adds none, and
\* leaves the stored list and get_links_count as they were.
C9_StoredLinksSkipped ==
    [][(IsAddCall /\ AllInputsStored) =>
          /\ al_result'.duplicates_skipped = Len(al_new')
          /\ al_result'.added = 0
          /\ alllinks' = alllinks
          /\ get_links_count' = get_links_count]_vars

\* A call skipped two links, one of them written differently from every
\* stored link.
C9_Witness ==
    /\ al_last = "add"
    /\ Len(al_new) = 2
    /\ al_result.added = 0
    /\ al_result.duplicates_skipped = 2
    /\ \E k \in 1..Len(al_new) :
         \A j \in 1..Len(alllinks) : alllinks[j] # al_new[k]

\* No two stored links share a normalized form.
NoNormalizedDuplicates(links) ==
    \A j, k \in 1..Len(links) :
        normalize_link(links[j]) = normalize_link(links[k]) => j = k

\* The positions of new_links that are kept: the normalized form is neither in
\* the store nor that of an earlier link of new_links.
KeptPositions(stored, new_links) ==
    {k \in 1..Len(new_links) :
        /\ \A j \in 1..Len(stored) :
             normalize_link(stored[j]) # normalize_link(new_links[k])
        /\ \A j \in 1..(k - 1) :
             normalize_link(new_links[j]) # normalize_link(new_links[k])}

\* The links at the kept positions, in the order of new_links.
KeptLinks(stored, new_links) ==
    LET kept == KeptPositions(stored, new_links)
        nth(n) == CHOOSE k \in kept : Cardinality({j \in kept : j <= k}) = n
    IN  [n \in 1..Cardinality(kept) |-> new_links[nth(n)]]

\* C10: a call of add_links_to_db appends to the store, in order, exactly the
\* first link of each normalized form that is not stored yet; added +
\* duplicates_skipped is the number of input links, total is the previous
\* count plus added, and a store without normalized duplicates stays so.
C10_FirstOfEachFormKept ==
    [][IsAddCall =>
          /\ alllinks' = alllinks \o KeptLinks(alllinks, al_new')
          /\ al_result'.added + al_result'.duplicates_skipped = Len(al_new')
          /\ al_result'.total = get_links_count + al_result'.added
          /\ al_result'.total = get_links_count'
          /\ NoNormalizedDuplicates(alllinks) =>
                NoNormalizedDuplicates(alllinks')]_vars

\* A call got two spellings of one new link: the first was added as the last
\* stored link, the second was skipped.
C10_Witness ==
    /\ al_last = "add"
    /\ Len(al_new) = 2
    /\ al_new[1] # al_new[2]
    /\ normalize_link(al_new[1]) = normalize_link(al_new[2])
    /\ al_result.added = 1
    /\ al_result.duplicates_skipped = 1
    /\ alllinks # <<>>
    /\ alllinks[Len(alllinks)] = al_new[1]
    /\ NoNormalizedDuplicates(alllinks)


\* ---------------------------------------------------------- claims C11..C20
\* The record_link calls that returned True for a link of the normalized form
\* of `link` since the last clear.
TrueReturnsFor(link) ==
    {k \in 1..Len(rl_true) : normalize_link(rl_true[k]) = normalize_link(link)}

\* C11: record_link is an atomic check-and-set: however the message handlers
\* interleave, between two clears of the seen-links store at most one
\* record_link call for a given normalized link returns True, and the link that
\* call was made with is in the store.
C11_OneTruePerLink ==
    \A k \in 1..Len(rl_true) :
        /\ Cardinality(TrueReturnsFor(rl_true[k])) = 1
        /\ \E j \in 1..Len(tb_seen_links) : tb_seen_links[j] = rl_true[k]

\* Two handlers are between record_link and the end of their send, each with
\* links of its own, and one of them was refused a spelling of a link the other
\* one recorded.
C11_Witness ==
    /\ \A h \in Handlers : af_pc[h] = "sending"
    /\ \E g, h \in Handlers :
         /\ g # h
         /\ Len(af_new_links[h]) < Len(af_links[h])
         /\ \E j \in 1..Len(af_links[h]), k \in 1..Len(af_new_links[g]) :
              /\ af_links[h][j] # af_new_links[g][k]
              /\ normalize_link(af_links[h][j]) = normalize_link(af_new_links[g][k])


\* C12: whenever a job has reached a terminal state (its result is recorded as
\* uploaded, upload failed, download failed, download error or fetch failed),
\* no staged file of that job remains on disk.
C12_TerminalJobLeavesNoFile ==
    \A k \in 1..Len(results) : ~PathExists(StagingPath(results[k].job))


\* A job is in flight while a downloader is downloading it, while its
\* downloaded file waits for the uploader, and while it is being uploaded.
InFlight(i) ==
    \/ \E d \in Downloaders :
         dl_pc[d] \in {"downloading", "writing"} /\ dl_item[d].job = i
    \/ \E k \in 1..Len(upload_queue) :
         upload_queue[k] = [job |-> i, status |-> "Ready for upload"]
    \/ up_pc = "uploading" /\ up_item.job = i

\* C13: any two jobs in flight at the same time use different staging paths,
\* also when their files have the same name, so the file the uploader sends
\* for a job is the file that job's download wrote.
C13_DistinctStagingPaths ==
    /\ \A i, j \in Jobs :
         (i # j /\ InFlight(i) /\ InFlight(j)) => StagingPath(i) # StagingPath(j)
    /\ up_pc = "uploading" => disk[StagingPath(up_item.job)] = up_item.job


\* A stage task ends only at the end of its loop: the fetcher after the last
\* link and the sentinels, a downloader on a sentinel, the uploader when every
\* link has its record; and every queued item but a sentinel belongs to a job.
StagesRunToTheEnd ==
    /\ fetcher_pc = "done" => fetcher_i = NumLinks + 1 /\ fetcher_k = MAX_PARALLEL
    /\ \A d \in Downloaders : dl_pc[d] = "done" => fetcher_pc = "done"
    /\ up_pc = "done" => Len(results) = NumLinks
    /\ \A k \in 1..Len(download_queue) :
         download_queue[k] = NoneItem \/ download_queue[k].job \in Jobs
    /\ \A k \in 1..Len(upload_queue) : upload_queue[k].job \in Jobs

\* The end of a fetch, of a download and of an upload, whether the call
\* returned or raised: the stage hands on an item of that job and goes on.
StageHandsOn ==
    /\ fetcher_i' # fetcher_i =>
         /\ fetcher_pc' \in {"fetching", "done"}
         /\ Len(download_queue') > Len(download_queue)
         /\ download_queue'[Len(download_queue) + 1].job = fetcher_i
    /\ \A d \in Downloaders :
         (dl_pc[d] \in {"downloading", "writing"} /\ dl_pc'[d] \notin {"downloading", "writing"}) =>
             /\ dl_pc'[d] = "get"
             /\ Len(upload_queue') = Len(upload_queue) + 1
             /\ upload_queue'[Len(upload_queue')].job = dl_item[d].job
             /\ upload_queue'[Len(upload_queue')].status \in
                  {"Ready for upload", "Download failed", "Download error"}
    /\ (up_pc = "uploading" /\ up_pc' # "uploading") =>
         /\ up_pc' \in {"get", "done"}
         /\ Len(results') = Len(results) + 1
         /\ results'[Len(results')].job = up_item.job
         /\ results'[Len(results')].status \in {"Uploaded", "Upload failed"}

\* C14: an exception raised while resolving, downloading or uploading one job
\* is caught inside the stage and becomes a failed record of that job, and the
\* stage goes on with the next item: no stage task ends because of it.
C14_ExceptionsStayInStage == []StagesRunToTheEnd /\ [][StageHandsOn]_vars

\* Each stage caught an exception of one job, and the batch still ran to its
\* end with one record per link.
C14_Witness ==
    /\ AllTasksDone
    /\ \A st \in {"Fetch error", "Download error", "Upload failed"} :
         \E k \in 1..Len(results) : results[k].status = st
    /\ \A i \in Jobs : \E k \in 1..Len(results) : results[k].job = i


\* Statuses of a record of a failed job.
FailureStatuses ==
    {"Fetch failed", "Fetch error", "Download failed", "Download error",
     "Upload failed"}

UploadedRecords == {k \in 1..Len(results) : results[k].status = "Uploaded"}

\* C15: at batch finish the summary's uploaded and failed counts add up to the
\* number of submitted links, the uploaded count is the number of records
\* marked uploaded, every other record has a failure status (none is left as
\* 'Ready for upload'), and the written result log holds every record.
C15_SummaryAccountsForAll ==
    /\ batch_pc # "pipeline" =>
         /\ summary.uploaded + summary.failed = NumLinks
         /\ summary.total = Len(results)
         /\ summary.uploaded = Cardinality(UploadedRecords)
         /\ \A k \in 1..Len(results) :
              k \notin UploadedRecords => results[k].status \in FailureStatuses
         /\ summary.failed =
              Cardinality({k \in 1..Len(results) :
                             results[k].status \in FailureStatuses})
    /\ batch_pc = "reported" => result_file = results

\* A batch with an uploaded job and failed jobs was reported.
C15_Witness ==
    /\ batch_pc = "reported"
    /\ summary.uploaded = 1
    /\ summary.failed = NumLinks - 1
    /\ \E k \in 1..Len(result_file) : result_file[k].status = "Upload failed"
    /\ \E k \in 1..Len(result_file) : result_file[k].status = "Download failed"


\* The items of job i, wherever the pipeline holds them.
ItemsOfJob(i) ==
    {download_queue[k] : k \in {n \in 1..Len(download_queue) : download_queue[n].job = i}}
    \cup {upload_queue[k] : k \in {n \in 1..Len(upload_queue) : upload_queue[n].job = i}}
    \cup {results[k] : k \in {n \in 1..Len(results) : results[n].job = i}}
    \cup {dl_item[d] : d \in {e \in Downloaders : dl_item[e].job = i}}
    \cup (IF up_item.job = i THEN {up_item} ELSE {})

FetchFailed(i) ==
    \E item \in ItemsOfJob(i) : item.status \in {"Fetch failed", "Fetch error"}

DownloadFailed(i) ==
    \E item \in ItemsOfJob(i) : item.status \in {"Download failed", "Download error"}

\* A downloader that takes a fetch-failed item off the download queue puts it
\* on the upload queue and keeps nothing.
FailurePassedOn ==
    (/\ Len(download_queue') < Len(download_queue)
     /\ Head(download_queue).status \in {"Fetch failed", "Fetch error"}) =>
        /\ upload_queue' = Append(upload_queue, Head(download_queue))
        /\ dl_item' = dl_item

\* C16: a job whose fetch failed is forwarded to the upload queue and recorded
\* without a download request and without an upload call, and a job whose
\* download failed is recorded without an upload call.
C16_FailuresBypassLaterStages ==
    /\ [](\A i \in Jobs :
            /\ FetchFailed(i) => i \notin download_calls /\ i \notin upload_calls
            /\ DownloadFailed(i) => i \notin upload_calls)
    /\ [][FailurePassedOn]_vars

\* A fetch-failed job and a download-failed job are in results, neither was
\* uploaded, the fetch-failed one was not downloaded, and a third job went
\* through download and upload.
C16_Witness ==
    /\ \E k \in 1..Len(results) :
         /\ results[k].status = "Fetch error"
         /\ results[k].job \notin download_calls \cup upload_calls
    /\ \E k \in 1..Len(results) :
         /\ results[k].status = "Download error"
         /\ results[k].job \in download_calls \ upload_calls
    /\ \E k \in 1..Len(results) :
         /\ results[k].status = "Uploaded"
         /\ results[k].job \in download_calls \cap upload_calls


\* C17: the number of items held in the download queue and in the upload queue
\* never exceeds a fixed capacity, the transfer-concurrency limit, whatever the
\* number of submitted links.
C17_QueuesWithinCapacity ==
    /\ Len(download_queue) <= MAX_PARALLEL
    /\ Len(upload_queue) <= MAX_PARALLEL


\* The records of one kind the current process_single_file call has written.
RecordedOf(kind) == {k \in 1..Len(pf_recorded) : pf_recorded[k] = kind}

\* C18: after a failed attempt process_single_file resolves the link again
\* before it downloads again and downloads from the URL of that resolution (no
\* download reuses the URL of an earlier attempt), it makes at most
\* MAX_DOWNLOAD_RETRIES attempts for a file, and after the last failed attempt
\* the file is recorded as failed exactly once.
C18_RetryWithFreshUrl ==
    /\ pf_attempt <= MAX_DOWNLOAD_RETRIES
    /\ Len(pf_downloads) <= MAX_DOWNLOAD_RETRIES
    /\ Len(pf_downloads) <= pf_resolves + 1
    /\ \A k \in 1..Len(pf_downloads) :
         /\ pf_downloads[k] <= pf_resolves
         /\ k > 1 => pf_downloads[k] > pf_downloads[k - 1]
    /\ Cardinality(RecordedOf("failure")) <= 1
    /\ pf_pc = "fail_notify" =>
         pf_attempt = MAX_DOWNLOAD_RETRIES /\ pf_recorded = <<"failure">>
    /\ (pf_pc \in {"returned", "raised"} /\ pf_attempt > 0
          /\ RecordedOf("success") = {}) =>
         pf_attempt = MAX_DOWNLOAD_RETRIES /\ pf_recorded = <<"failure">>

\* All attempts of a file failed at the download, each retry with the URL of a
\* new resolution, and the file has its one failure record.
C18_Witness ==
    /\ pf_pc = "returned"
    /\ pf_attempt = MAX_DOWNLOAD_RETRIES
    /\ Len(pf_downloads) = MAX_DOWNLOAD_RETRIES
    /\ pf_resolves = MAX_DOWNLOAD_RETRIES - 1
    /\ pf_uploads = 0
    /\ pf_recorded = <<"failure">>


\* C19: a link whose metadata resolution fails (service unreachable or a
\* status other than 200) is resolved again up to the retry ceiling, and it is
\* recorded as failed only after the ceiling is exhausted.
C19_ResolutionRetried ==
    pl_pc = "error_notify" => pl_fetches = MAX_DOWNLOAD_RETRIES

\* The file process_single_file is processing or has just processed.
CurrentFile == pl_files[pl_idx]

\* C20: a file whose declared size exceeds MAX_SIZE is recorded as oversized
\* at once: when its processing has ended there is one oversized record of its
\* name and no other record of the call, no download was requested and no
\* attempt was made; and no file name ever has two oversized records.
C20_OversizedRecordedAtOnce ==
    /\ \A n \in FileNames : oversized_links[n] <= 1
    /\ (/\ pl_pc \in {"files", "raised"}
        /\ pf_pc \in {"returned", "raised"}
        /\ CurrentFile.size > MAX_SIZE) =>
           /\ oversized_links[pl_idx] = 1
           /\ pf_recorded = <<"oversized">>
           /\ pf_downloads = <<>>
           /\ pf_attempt = 0

\* ---------------------------------------------------------- claims C21..C30
\* The upload of the current file has just raised: upload_and_cleanup was
\* running and no success was recorded.
UploadRaises ==
    /\ pf_pc = "uploading"
    /\ pf_pc' # "uploading"
    /\ RecordedOf("success")' = RecordedOf("success")

\* C21: upload-failed is terminal. When the upload of a downloaded file
\* raises, the failure is recorded at once and the file is neither resolved
\* nor downloaded again.
C21_UploadFailedIsTerminal ==
    [][UploadRaises =>
         /\ pf_pc' \notin {"resolving", "downloading"}
         /\ RecordedOf("failure")' # RecordedOf("failure")]_vars

\* Every chat of BROADCAST_CHATS was reached by the loop of a broadcast task
\* that has ended.
BroadcastReachesAll == bc_pc = "done" => Len(bc_log) = bc_chats

\* A broadcast task exists only after the primary upload succeeded, and
\* nothing it does undoes the success record or makes upload_and_cleanup
\* raise.
PrimaryOutcomeKept ==
    bc_pc # "none" =>
        /\ uc_recorded = 1
        /\ ~uc_error
        /\ uc_pc \in {"sleeping", "returned"}

\* A send_video of the broadcast task raises while chats are left and the
\* file is still at its path: send_video is called for the next chat.
NextChatAfterFailure ==
    /\ bc_pc = "sending"
    /\ bc_log' = Append(bc_log, "failed")
    /\ bc_idx < bc_chats
    /\ uc_file
    => /\ bc_pc' = "sending"
       /\ bc_idx' = bc_idx + 1

\* C22: a failed send to one broadcast chat does not keep the loop from the
\* remaining chats, and no broadcast failure changes the recorded outcome of
\* a file whose primary upload succeeded.
C22_BroadcastFailuresIsolated ==
    /\ [](BroadcastReachesAll /\ PrimaryOutcomeKept)
    /\ [][NextChatAfterFailure]_vars

\* The send to the first chat failed, the send to the second succeeded, and
\* upload_and_cleanup returned with its success recorded.
C22_Witness ==
    /\ bc_pc = "done"
    /\ Len(bc_log) >= 2
    /\ bc_log[1] = "failed"
    /\ bc_log[2] = "sent"
    /\ uc_pc = "returned"
    /\ uc_recorded = 1

\* Records of items whose upload step has run.
UploadStepRecords ==
    {k \in 1..Len(results) : StartsWithUpload(results[k].status)}

\* C23: after the upload step of a staged file has finished, successfully or
\* with an exception, there is no file at its staging path: in the batch
\* pipeline for every record written by the upload step, in the bot once
\* upload_and_cleanup has returned or raised.
C23_StagedFileDeletedAfterUpload ==
    /\ \A k \in UploadStepRecords :
         ~PathExists(StagingPath(results[k].job))
    /\ uc_pc \in {"returned", "raised"} => ~uc_file

\* A batch in which one upload succeeded and another raised.
C23_Witness ==
    /\ \E k \in UploadStepRecords : results[k].status = "Uploaded"
    /\ \E k \in UploadStepRecords : results[k].status = "Upload failed"

\* An upload of the bot has raised and its cleanup has run.
C23_BotWitness == uc_pc = "raised" /\ uc_error

\* The links recognized in the words of the text of the call.
RecognizedLinks == {ex_text.words[k].link : k \in 1..Len(ex_text.words)} \ {""}

\* Position of the first word of the text in which the link is matched.
FirstWordWith(link) ==
    CHOOSE k \in 1..Len(ex_text.words) :
        /\ ex_text.words[k].link = link
        /\ \A j \in 1..(k - 1) : ex_text.words[j].link # link

\* The list holds every recognized link once, in order of first occurrence.
OncePerLinkInOrder(links) ==
    /\ {links[k] : k \in 1..Len(links)} = RecognizedLinks
    /\ \A i, j \in 1..Len(links) :
         i < j => FirstWordWith(links[i]) < FirstWordWith(links[j])

StatusReturns == up_pc = "status" /\ up_pc' # "status"

\* The uploader is in its loop, or has left it with a record for every link.
UploaderKeepsRunning ==
    /\ up_pc \in {"get", "status", "uploading", "done"}
    /\ up_pc = "done" => Len(results) = NumLinks

\* The return of a status update, with or without an exception of the edit,
\* leaves every record as it is and goes on with the item that was taken: a
\* failure item is appended, a file item is being uploaded.
StatusReturnHarmless ==
    StatusReturns =>
        /\ SubSeq(results', 1, Len(results)) = results
        /\ IF up_item = NoneItem
           THEN results' = results /\ up_pc' = "get"
           ELSE \/ results' = Append(results, up_item)
                \/ /\ results' = results
                   /\ up_pc' = "uploading"
                   /\ up_item' = up_item

\* C25: a failure of the status sink during a progress update is swallowed:
\* no exception reaches the uploader, no record changes, and the uploader
\* goes on with the item it holds and ends only with a record for every link.
C25_StatusFailureSwallowed ==
    []UploaderKeepsRunning /\ [][StatusReturnHarmless]_vars

\* The edit of a status update raised and the uploader is uploading the item
\* it had taken before, with an earlier record in results.
C25_Witness ==
    /\ status_error
    /\ up_pc = "uploading"
    /\ Len(results) >= 1

\* C26: every progress snapshot of a batch reports a downloading count
\* between 0 and MAX_PARALLEL, and the snapshot made after all stages have
\* finished reports downloading = 0 and completed = total.
C26_SnapshotCounts ==
    /\ up_pc = "status" => status_text.download_active \in 0..MAX_PARALLEL
    /\ batch_pc = "final_status" =>
         /\ status_text.download_active = 0
         /\ status_text.done = NumLinks
         /\ status_text.links_count = NumLinks

\* A snapshot made while every downloader holds a permit.
C26_Witness ==
    /\ up_pc = "status"
    /\ status_text.download_active = MAX_PARALLEL
    /\ status_text.done >= 1

\* The final snapshot of a batch.
C26_FinalWitness == batch_pc = "final_status" /\ status_text.done = NumLinks

\* download_file is called for the current file.
DownloadStarts == pf_pc # "downloading" /\ pf_pc' = "downloading"

\* C27: while the user's allow_duplicates setting is off, a file that has a
\* success record for the user, link and file name is not downloaded again.
C27_BlockedDuplicateNotDownloaded ==
    [][DownloadStarts /\ ~allow_duplicates => downloads[pl_idx] = 0]_vars

\* Handler h runs from the arrival of its message to its first await.
AfRecordStep(h) == af_pc[h] = "idle" /\ af_pc'[h] # "idle"

\* Normalized forms of the links of a list.
FormsOf(links) == {normalize_link(links[k]) : k \in 1..Len(links)}

\* The links the handler forwards are those of its message whose normalized
\* form the store did not hold, one link for every such form.
ForwardsUnseenOnce(h) ==
    LET new_links == af_new_links'[h]
    IN  /\ FormsOf(new_links) =
               FormsOf(af_links'[h]) \ FormsOf(tb_seen_links)
        /\ \A j, k \in 1..Len(new_links) :
               j # k => normalize_link(new_links[j]) # normalize_link(new_links[k])

\* The store loses links only by being cleared.
SeenKeptUntilCleared ==
    \/ tb_seen_links' = <<>>
    \/ /\ Len(tb_seen_links') >= Len(tb_seen_links)
       /\ SubSeq(tb_seen_links', 1, Len(tb_seen_links)) = tb_seen_links

\* C28: auto-forwarding never forwards a link whose normalized form is in
\* seen_links, whatever the interleaving of the message handlers, until
\* clear_terabox_db empties the store; a link not in the store, so every link
\* after a clear, is forwarded on its next occurrence.
C28_SeenLinksNotForwardedAgain ==
    [][/\ SeenKeptUntilCleared
       /\ \A h \in Handlers : AfRecordStep(h) => ForwardsUnseenOnce(h)]_vars

\* Two handlers forward spellings of the same link at the same time: the
\* store was cleared after the first of them had recorded it.
C28_Witness ==
    \E g, h \in Handlers :
        /\ g # h
        /\ af_pc[g] = "sending"
        /\ af_pc[h] = "sending"
        /\ FormsOf(af_new_links[g]) \cap FormsOf(af_new_links[h]) # {}

\* C29: after any sequence of record_failure and record_success calls the
\* failed_links collection holds at most one document per (user, link), its
\* retry_count is the number of failures recorded for the pair since the
\* document was created, and right after record_success(user, link) it holds
\* no document for (user, link).
C29_FailedLinksRecord ==
    /\ \A user_id \in DbUsers, link \in DbLinks :
         LET docs == Matching(db_failed, user_id, link)
         IN  /\ Cardinality(docs) <= 1
             /\ \A k \in docs :
                  db_failed[k].retry_count = db_failures[user_id][link]
             /\ db_failures[user_id][link] > 0 => docs # {}
    /\ db_last.call = "record_success" =>
         Matching(db_failed, db_last.user_id, db_last.link) = {}

\* A record_success has just removed the document of a pair that had failed
\* more than once, while another pair's document stays.
C29_Witness ==
    /\ db_last.call = "record_success"
    /\ db_downloads = MaxSuccesses
    /\ \E k \in 1..Len(db_failed) : db_failed[k].retry_count = MaxFailures


\* The files of the fresh resolution that have the name and a transfer URL.
Candidates ==
    IF rs_response.kind = "json" /\ rs_response.status = 200
    THEN {k \in 1..Len(rs_response.files) :
            /\ rs_response.files[k].name = rs_name
            /\ rs_response.files[k].direct_url # ""}
    ELSE {}

\* C30: re-resolving a link for a file name never raises; it returns a file
\* of the fresh resolution that has the name and a transfer URL, with that
\* URL, when there is one, and not-found when the service is unreachable,
\* answers with a status other than 200 or lists no such file.
C30_FreshResolution ==
    /\ rs_pc # "raised"
    /\ rs_pc = "returned" =>
         IF Candidates = {}
         THEN rs_result = NotFound
         ELSE /\ rs_result.found
              /\ \E k \in Candidates :
                   rs_result.file_info = rs_response.files[k]
              /\ rs_result.direct_url = rs_result.file_info.direct_url

\* The call returned the second listed file: the first one has the name but
\* no transfer URL.
C30_Witness ==
    /\ rs_pc = "returned"
    /\ rs_result.found
    /\ Len(rs_response.files) = 2
    /\ rs_response.files[1].name = rs_name
    /\ rs_result.file_info = rs_response.files[2]
    /\ rs_result.file_info # rs_response.files[1]

\* The call returned not-found for an unreachable service.
C30_UnreachableWitness ==
    /\ rs_pc = "returned"
    /\ rs_response.kind = "unreachable"
    /\ rs_result = NotFound


\* ------------------------------------------------------- claims C31..C39
\* The number of sentinels in a queue.
SentinelsIn(q) == Cardinality({k \in 1..Len(q) : q[k] = NoneItem})

\* The fetcher has put no sentinel before it has drained the links, and all
\* MAX_PARALLEL of them are in the queue from then on.
SentinelsAfterLinks ==
    /\ fetcher_pc # "done" => SentinelsIn(download_queue) = 0
    /\ fetcher_pc = "done" =>
         /\ fetcher_i > NumLinks
         /\ SentinelsIn(download_queue) = MAX_PARALLEL

\* A downloader terminates by taking the sentinel at the head of the queue
\* and putting it back at the end, a sentinel leaves the head in no other
\* way, and a terminated downloader takes nothing more.
OneSentinelEach ==
    /\ \A d \in Downloaders :
         /\ dl_pc[d] = "done" => dl_pc'[d] = "done"
         /\ dl_pc[d] # "done" /\ dl_pc'[d] = "done" =>
              /\ download_queue # <<>>
              /\ Head(download_queue) = NoneItem
              /\ download_queue' = Append(Tail(download_queue), NoneItem)
              /\ \A e \in Downloaders \ {d} : dl_pc'[e] = dl_pc[e]
    /\ (/\ download_queue # <<>>
        /\ Head(download_queue) = NoneItem
        /\ download_queue' # download_queue) =>
         \E d \in Downloaders : dl_pc[d] = "get" /\ dl_pc'[d] = "done"

AllDownloadersDone == \A d \in Downloaders : dl_pc[d] = "done"

\* C31: the fetcher puts exactly MAX_PARALLEL sentinels, after the links;
\* every downloader takes exactly one sentinel, puts it back once and
\* terminates, and every downloader does terminate (and, by the second
\* conjunct, stays terminated).
C31_SentinelShutdown ==
    /\ []SentinelsAfterLinks
    /\ [][OneSentinelEach]_vars
    /\ <>AllDownloadersDone

\* Every downloader has terminated, after jobs were downloaded, and the
\* queue holds the sentinels.
C31_Witness ==
    /\ AllDownloadersDone
    /\ download_calls # {}
    /\ download_queue = [k \in 1..MAX_PARALLEL |-> NoneItem]


\* The links whose fetch_terabox_info call has not returned yet.
FetchesInFlight == {j \in fetch_calls : j >= fetcher_i}

\* The jobs whose send_video / send_document call has not returned yet.
UploadsInFlight == {j \in upload_calls : RecordsOf(j) = {}}

\* C32: during a batch at most one metadata request and at most one upload
\* are in progress, whatever the number of links.
C32_OneFetchOneUpload ==
    /\ Cardinality(FetchesInFlight) <= 1
    /\ Cardinality(UploadsInFlight) <= 1
    /\ active_uploads \in {0, 1}
    /\ active_uploads = Cardinality(UploadsInFlight)

\* A fetch, a download and an upload are in progress at once.
C32_Witness ==
    /\ Cardinality(FetchesInFlight) = 1
    /\ Cardinality(UploadsInFlight) = 1
    /\ \E d \in Downloaders : dl_pc[d] = "downloading"


\* process_single_file is called for the file at pl_idx.
StartsFile == pl_pc = "files" /\ pf_pc = "none" /\ pf_pc' # "none"

\* C33: the files of a link are processed in the order the resolver returned
\* them, one after the other: the loop moves from file i to file i + 1 only,
\* and the processing of a file that is not the first starts only after the
\* file before it has its outcome.
C33_FilesInResolverOrder ==
    [][/\ (pl_pc = "files" /\ pl_idx' # pl_idx /\ pl_pc' = "files") =>
            pl_idx' = pl_idx + 1
       /\ StartsFile =>
            /\ pl_files = pl_link
            /\ pl_idx \in 1..Len(pl_files)
            /\ pl_idx > 1 => Len(pf_recorded) = 1]_vars

\* The second file of a link is being downloaded after the first was
\* uploaded.
C33_Witness ==
    /\ pl_pc = "files"
    /\ pl_idx = 2
    /\ pf_pc = "downloading"
    /\ downloads[1] = 1
    /\ pl_runs = 1


\* C34: the checksum of a successful download_file covers every byte of the
\* final file, the bytes that were in the partial file before a resumed
\* attempt included: the hasher was given the content of the file at path.
C34_ChecksumCoversFile ==
    df_pc = "returned" => df_hasher = df_final.data


\* C35: process_single_file ends with exactly one terminal record of the
\* file, a success, a failure or an oversized record: it never writes a
\* second record, and when it has returned or raised it has written one.
C35_OneTerminalRecord ==
    /\ Len(pf_recorded) <= 1
    /\ pf_pc \in {"returned", "raised"} => Len(pf_recorded) = 1

\* The same for the files that enter the retry loop, whose calls end with
\* one record whatever fails.
C35_RetryLoopRecordsOnce ==
    /\ Len(pf_recorded) <= 1
    /\ (pf_pc \in {"returned", "raised"} /\ pf_attempt > 0) =>
         Len(pf_recorded) = 1


C36_SingleChatFindsFile ==
    bc_chats = 1 => \A k \in 1..Len(bc_log) : bc_log[k] # "nofile"


\* C37: a link auto-forwarding has in seen_links was delivered to the target
\* chat: when the send of a handler has failed, the links of its message are
\* not left marked as seen.
C37_SeenLinksWereDelivered ==
    \A h \in Handlers :
      af_outcome[h] = "error" =>
        \A k \in 1..Len(af_new_links[h]) :
          NotInSeen(af_new_links[h][k], tb_seen_links)


\* A progress snapshot is being shown: by the uploader, or the final one.
SnapshotShown == up_pc = "status" \/ batch_pc = "final_status"

\* C38: in every progress snapshot completed + downloading + uploading +
\* waiting in queue is the number of submitted links: downloading +
\* uploading is at most the number of unfinished jobs, so the max(0, ...)
\* clamp leaves the value as it is.
C38_SnapshotAddsUp ==
    SnapshotShown =>
      /\ status_text.download_active + status_text.upload_active
           <= status_text.links_count - status_text.done
      /\ status_text.queue_waiting =
           status_text.links_count - status_text.done
             - status_text.download_active - status_text.upload_active
      /\ status_text.done + status_text.download_active
           + status_text.upload_active + status_text.queue_waiting = NumLinks

\* A snapshot in which every unfinished job is being downloaded, after a
\* first record: the argument of the clamp is exactly 0.
C38_Witness ==
    /\ up_pc = "status"
    /\ status_text.done >= 1
    /\ status_text.download_active = MAX_PARALLEL
    /\ status_text.queue_waiting = 0


\* No job item is behind a sentinel in the download queue.
JobsBeforeSentinels ==
    \A i, j \in 1..Len(download_queue) :
      (i < j /\ download_queue[i] = NoneItem) => download_queue[j] = NoneItem

\* C39: every job item is put on the download queue before any sentinel, so
\* once a downloader has terminated the download queue holds sentinels only;
\* and when all stages have finished the upload queue is empty and the
\* download queue holds exactly MAX_PARALLEL sentinels and nothing else.
C39_QueuesAtShutdown ==
    /\ JobsBeforeSentinels
    /\ (\E d \in Downloaders : dl_pc[d] = "done") =>
         \A k \in 1..Len(download_queue) : download_queue[k] = NoneItem
    /\ AllTasksDone =>
         /\ upload_queue = <<>>
         /\ download_queue = [k \in 1..MAX_PARALLEL |-> NoneItem]

\* A downloader has terminated while the other still downloads a job and
\* the uploader has not finished.
C39_Witness ==
    /\ \E d \in Downloaders : dl_pc[d] = "done"
    /\ \E d \in Downloaders : dl_pc[d] = "downloading"
    /\ up_pc # "done"
    /\ Len(download_queue) = MAX_PARALLEL

\* All stages have finished.
C39_FinalWitness ==
    /\ AllTasksDone
    /\ upload_calls # {}
    /\ download_queue = [k \in 1..MAX_PARALLEL |-> NoneItem]
    /\ upload_queue = <<>>

=============================================================================
